---------------------------- MODULE Spec2Model ----------------------------
(***************************************************************************)
(* THD analyzer plugin (krexito/THD-DETECTOR): the telemetry codec         *)
(* (THDDataMessage), the analysis ring buffer, the channel registry and    *)
(* the per-block processing call of THDAnalyzerPlugin.                     *)
(*                                                                         *)
(* Number representation.  A float that is only stored, copied or put on   *)
(* the wire (a THDDataMessage field, a ChannelData field) is its IEEE-754  *)
(* binary32 bit pattern, a number in 0 .. 2^32-1; a double assigned from   *)
(* a float holds the same value and is written as the same pattern.  A     *)
(* float the code computes with (an audio sample, a magnitude, an analysis *)
(* result) is an integer number of fixed-point units; F32 gives the bit    *)
(* pattern of such a value where the code copies it into a message.        *)
(***************************************************************************)
EXTENDS Integers, Sequences, FiniteSets

\* The transform size.  src has 8192 (THDAnalyzerPlugin.h:24); the ring buffer
\* and the block processing are written against the size only, and the model
\* runs them on a small window.
fftSize == 8

\* Number of registry slots (README.md:423-432, THDAnalyzerPlugin.h:286).
ChannelCount == 8

\* Harmonics H2..H8 (THDAnalyzerPlugin.h:191).
NumHarmonics == 7

\* Largest number of samples the host delivers over one run of the model:
\* enough for the ring to wrap, be reset and wrap again.
MaxClock == 2 * fftSize + 3

\* Largest number of inbound MIDI events in one block.
MaxBatch == 3

Byte == 0 .. 255

Pow2(n) == 2 ^ n

RECURSIVE Log2(_)
\* floor(log2 a) for a >= 1
Log2(a) == IF a < 2 THEN 0 ELSE 1 + Log2(a \div 2)

Abs(x) == IF x < 0 THEN -x ELSE x

Max(a, b) == IF a > b THEN a ELSE b

RECURSIVE Flatten(_)
Flatten(ss) == IF ss = <<>> THEN <<>> ELSE Head(ss) \o Flatten(Tail(ss))

Zeros(n) == [i \in 1 .. n |-> 0]

(***************************************************************************)
(* float: the sign bit s, the biased exponent e (8 bits) and the fraction  *)
(* m (23 bits) of a binary32.  F32(v) is the float holding the integer v,  *)
(* |v| < 2^24.                                                             *)
(***************************************************************************)
FloatZero == [s |-> 0, e |-> 0, m |-> 0]

F32(v) ==
    IF v = 0 THEN FloatZero
    ELSE LET a == Abs(v)
             k == Log2(a)
         IN  [s |-> IF v < 0 THEN 1 ELSE 0,
              e |-> 127 + k,
              m |-> (a - Pow2(k)) * Pow2(23 - k)]

\* (uint8*)&f, i = 0..3: the four bytes of a float in memory, lowest address
\* first.  The build targets (x86-64, arm64) are little-endian: fraction bits
\* 0-7, fraction bits 8-15, exponent bit 0 with fraction bits 16-22, sign with
\* exponent bits 1-7.
FloatBytes(x) ==
    << x.m % 256,
       (x.m \div 256) % 256,
       (x.e % 2) * 128 + (x.m \div 65536),
       x.s * 128 + (x.e \div 2) >>

\* memcpy(&f, &data[pos], 4): the float whose four bytes are b[1..4].
BytesToFloat(b) ==
    [s |-> b[4] \div 128,
     e |-> (b[4] % 128) * 2 + (b[3] \div 128),
     m |-> (b[3] % 128) * 65536 + b[2] * 256 + b[1]]

FloatZeros(n) == [i \in 1 .. n |-> FloatZero]

(***************************************************************************)
(* THDDataMessage                                                          *)
(***************************************************************************)
\* THDDataMessage(): every field zero.
THDDataMessage ==
    [channelId |-> 0, thd |-> FloatZero, thdN |-> FloatZero, level |-> FloatZero,
     peakLevel |-> FloatZero, harmonics |-> FloatZeros(NumHarmonics)]

(***************************************************************************)
(* juce::MidiMessage, as its raw bytes.  isSysEx: the first byte is 0xF0.  *)
(* getSysExData: the bytes after the 0xF0.  getSysExDataSize: the raw size *)
(* less the 0xF0 and the closing 0xF7.                                     *)
(***************************************************************************)
\* MidiMessage(): an empty sysex message.
MidiMessage == << 240, 247 >>

isSysEx(midi) == Len(midi) > 0 /\ midi[1] = 240

getSysExData(midi) == IF isSysEx(midi) THEN SubSeq(midi, 2, Len(midi)) ELSE <<>>

getSysExDataSize(midi) == IF isSysEx(midi) THEN Len(midi) - 2 ELSE 0

\* toMidiBytes with the H2..H8 block written H8 first: a mutant.
toMidiBytesReversed(msg) ==
    << 240, 125, 1, msg.channelId % 256 >>
    \o FloatBytes(msg.thd) \o FloatBytes(msg.thdN)
    \o FloatBytes(msg.level) \o FloatBytes(msg.peakLevel)
    \o Flatten([h \in 1 .. NumHarmonics |->
                   FloatBytes(msg.harmonics[NumHarmonics + 1 - h])])
    \o << 247 >>

\* THDDataMessage::toMidiBytes: the MidiMessage built from the sysex bytes.
toMidiBytes(msg) ==
    << 240, 125, 1, msg.channelId % 256 >>
    \o FloatBytes(msg.thd) \o FloatBytes(msg.thdN)
    \o FloatBytes(msg.level) \o FloatBytes(msg.peakLevel)
    \o Flatten([h \in 1 .. NumHarmonics |-> FloatBytes(msg.harmonics[h])])
    \o << 247 >>

\* The size fromMidiBytes requires of getSysExDataSize (THDAnalyzerPlugin.h:242).
MinSysExDataSize == 49

\* memcpy (&f, &data[pos], 4) on a 0-based byte array held as a sequence.
FloatAt(data, pos) ==
    << data[pos + 1], data[pos + 2], data[pos + 3], data[pos + 4] >>

\* The fields fromMidiBytes reads once its checks have passed.
ParsedMessage(data) ==
    [channelId |-> data[3],
     thd       |-> BytesToFloat(FloatAt(data, 3)),
     thdN      |-> BytesToFloat(FloatAt(data, 7)),
     level     |-> BytesToFloat(FloatAt(data, 11)),
     peakLevel |-> BytesToFloat(FloatAt(data, 15)),
     harmonics |-> [h \in 1 .. NumHarmonics |->
                       BytesToFloat(FloatAt(data, 19 + 4 * (h - 1)))]]

\* fromMidiBytes without the identifier check: a mutant.
fromMidiBytesNoIdCheck(self, midi) ==
    IF ~isSysEx(midi) THEN [ok |-> FALSE, msg |-> self]
    ELSE IF getSysExDataSize(midi) < MinSysExDataSize
         THEN [ok |-> FALSE, msg |-> self]
         ELSE [ok |-> TRUE, msg |-> ParsedMessage(getSysExData(midi))]

\* THDDataMessage::fromMidiBytes on the message self: the returned flag and
\* the message's fields afterwards.
fromMidiBytes(self, midi) ==
    IF ~isSysEx(midi) THEN [ok |-> FALSE, msg |-> self]
    ELSE LET data == getSysExData(midi)
             size == getSysExDataSize(midi)
         IN  IF size < MinSysExDataSize THEN [ok |-> FALSE, msg |-> self]
             ELSE IF data[1] # 125 \/ data[2] # 1
                  THEN [ok |-> FALSE, msg |-> self]
                  ELSE [ok |-> TRUE, msg |-> ParsedMessage(data)]

(***************************************************************************)
(* juce::MidiBuffer, as the sequence of its events (every event of this    *)
(* plugin sits at sample position 0).                                      *)
(***************************************************************************)
RECURSIVE findActualEventLength(_, _, _)
\* MidiBuffer::addEvent keeps of a sysex event the bytes up to and including
\* the first 0xF7 after the status byte: i is the number of bytes scanned.
findActualEventLength(data, maxBytes, i) ==
    IF i < maxBytes
    THEN IF data[i + 1] = 247 THEN i + 1
         ELSE findActualEventLength(data, maxBytes, i + 1)
    ELSE i

\* midiOutputBuffer.addEvent (midiMsg, 0)
addEvent(buffer, midi) ==
    LET numBytes == findActualEventLength(midi, Len(midi), 1)
    IN  IF Len(midi) = 0 \/ numBytes <= 0 THEN buffer
        ELSE Append(buffer, SubSeq(midi, 1, numBytes))

RECURSIVE addAll(_, _)
addAll(buffer, events) ==
    IF events = <<>> THEN buffer
    ELSE addAll(addEvent(buffer, Head(events)), Tail(events))

\* midiMessages.addEvents (other, 0, numSamples, 0): an event at sample
\* position 0 is copied unless 0 >= 0 + numSamples (and numSamples >= 0).
addEvents(buffer, other, numSamples) ==
    IF 0 >= numSamples /\ numSamples >= 0 THEN buffer
    ELSE addAll(buffer, other)

(***************************************************************************)
(* FFTAnalyzer                                                             *)
(***************************************************************************)
\* The bins of the magnitude spectrum of an analyzer whose fftSize is size:
\* magnitude[0 .. fftSize/2 - 1].
BinsOf(size) == 0 .. (size \div 2) - 1

\* The bins of the plugin's analyzer.
Bins == BinsOf(fftSize)

\* The float nearest to the integer n, ties to the even significand: a float
\* keeps 24 significant bits.
RoundF32(n) ==
    IF Abs(n) < Pow2(24) THEN n
    ELSE LET g == Pow2(Log2(Abs(n)) - 23)
             q == Abs(n) \div g
             r == Abs(n) % g
             rounded == IF 2 * r > g \/ (2 * r = g /\ q % 2 = 1)
                        THEN (q + 1) * g ELSE q * g
         IN  IF n < 0 THEN -rounded ELSE rounded

\* static_cast<int> (a / b) for floats a >= 0 and b > 0 that hold integers:
\* the quotient is rounded to a float, ties to even, before the cast drops
\* its fraction.  Below 2^23 only a quotient within half an ulp of the next
\* integer is rounded up to it.
CastOfQuotient(a, b) ==
    LET n   == a \div b
        rem == a % b
    IN  IF n >= Pow2(23)
        THEN LET g == Pow2(Log2(n) - 23)
                 q == n \div g
                 t == (n % g) * b + rem
             IN  IF 2 * t > g * b \/ (2 * t = g * b /\ q % 2 = 1)
                 THEN (q + 1) * g ELSE q * g
        ELSE LET halfUlps == Pow2(IF n = 0 THEN 25 ELSE 24 - Log2(n))
             IN  IF rem # 0 /\ b - rem <= b \div halfUlps THEN n + 1 ELSE n

(***************************************************************************)
(* float: the level, the sums of squares and the ratios of analyze are     *)
(* single-precision values, and every operation on them rounds its result  *)
(* to the nearest float, ties to the even significand.  A float that is    *)
(* not negative is held as [m, e], the value m * 2^e with                  *)
(* 2^23 <= m < 2^24, or with m = 0 for zero.  The operators keep every     *)
(* intermediate value below 2^31.                                          *)
(***************************************************************************)
F32Zero == [m |-> 0, e |-> 0]

\* AnalysisResult {}: every scalar zero, the harmonics vector empty.
DefaultAnalysisResult ==
    [fundamentalFrequency |-> 0, thd |-> F32Zero, thdN |-> F32Zero,
     level |-> F32Zero, harmonics |-> <<>>, noiseFloor |-> F32Zero]

\* The sign bit, the biased exponent and the fraction of the float m * 2^e,
\* as it lies in memory: |m| * 2^e is (1 + fraction / 2^23) * 2^(e + 23), the
\* bias is 127, and the sign bit is set for m below 0.  The floats of analyze
\* are zero or normal.
BitsOf(x) ==
    IF x.m = 0 THEN FloatZero
    ELSE [s |-> IF x.m < 0 THEN 1 ELSE 0,
          e |-> x.e + 150,
          m |-> Abs(x.m) - Pow2(23)]

\* m * 2^e with the significand m of 24 bits, or the next float above it
\* when the digits dropped round up.
F32Up(m, up, e) ==
    IF ~up THEN [m |-> m, e |-> e]
    ELSE IF m + 1 = Pow2(24) THEN [m |-> Pow2(23), e |-> e + 1]
    ELSE [m |-> m + 1, e |-> e]

\* static_cast<float> (n) for an int 0 <= n < 2^24: exact.
F32OfInt(n) ==
    IF n = 0 THEN F32Zero
    ELSE LET k == Log2(n) IN [m |-> n * Pow2(23 - k), e |-> k - 23]

\* a * b: the product of the significands, 48 bits, is formed from their
\* halves of 12 bits as hi * 2^24 + lo.
F32Mul(a, b) ==
    IF a.m = 0 \/ b.m = 0 THEN F32Zero
    ELSE LET ah  == a.m \div 4096
             al  == a.m % 4096
             bh  == b.m \div 4096
             bl  == b.m % 4096
             mid == ah * bl + al * bh
             low == (mid % 4096) * 4096 + al * bl
             hi  == ah * bh + mid \div 4096 + low \div Pow2(24)
             lo  == low % Pow2(24)
             e   == a.e + b.e + 24
         IN  IF hi >= Pow2(23)
             THEN F32Up(hi, lo > Pow2(23) \/ (lo = Pow2(23) /\ hi % 2 = 1), e)
             ELSE LET s == 2 * hi + lo \div Pow2(23)
                      r == lo % Pow2(23)
                  IN  F32Up(s, r > Pow2(22) \/ (r = Pow2(22) /\ s % 2 = 1), e - 1)

\* a + b: the smaller operand is shifted to the exponent of the greater, the
\* digits shifted out deciding the rounding.
F32Add(a, b) ==
    IF a.m = 0 THEN b
    ELSE IF b.m = 0 THEN a
    ELSE LET x == IF a.e >= b.e THEN a ELSE b
             y == IF a.e >= b.e THEN b ELSE a
             d == x.e - y.e
         IN  IF d > 25 THEN x
             ELSE LET q == y.m \div Pow2(d)
                      r == y.m % Pow2(d)
                      s == x.m + q
                  IN  IF s < Pow2(24)
                      THEN F32Up(s, 2 * r > Pow2(d) \/ (2 * r = Pow2(d) /\ s % 2 = 1),
                                 x.e)
                      ELSE LET h == s \div 2
                               f == (s % 2) * Pow2(d) + r
                           IN  F32Up(h, f > Pow2(d) \/ (f = Pow2(d) /\ h % 2 = 1),
                                     x.e + 1)

\* a / b for b above 0: the quotient of the significands, between 1/2 and 2,
\* by long division with digits of 7 bits; what is left of the dividend
\* breaks a tie.
F32Div(a, b) ==
    IF a.m = 0 THEN F32Zero
    ELSE LET q0 == a.m \div b.m
             r0 == a.m % b.m
             d1 == (r0 * 128) \div b.m
             r1 == (r0 * 128) % b.m
             d2 == (r1 * 128) \div b.m
             r2 == (r1 * 128) % b.m
             d3 == (r2 * 128) \div b.m
             r3 == (r2 * 128) % b.m
             d4 == (r3 * 128) \div b.m
             r4 == (r3 * 128) % b.m
             q  == ((q0 * 128 + d1) * 128 + d2) * 128 + d3
         IN  IF q0 = 1
             THEN LET s == q * 4 + d4 \div 32
                      f == d4 % 32
                  IN  F32Up(s, f > 16 \/ (f = 16 /\ (r4 > 0 \/ s % 2 = 1)),
                            a.e - b.e - 23)
             ELSE LET s == q * 8 + d4 \div 16
                      f == d4 % 16
                  IN  F32Up(s, f > 8 \/ (f = 8 /\ (r4 > 0 \/ s % 2 = 1)),
                            a.e - b.e - 24)

RECURSIVE F32SqrtDigits(_, _, _, _)
\* The root of n * 2^26, n below 2^26, digit by digit: i pairs of binary
\* digits of n * 2^26 have been taken, root is the root of those and rem
\* what they leave.
F32SqrtDigits(n, i, root, rem) ==
    IF i = 26 THEN [root |-> root, rem |-> rem]
    ELSE LET pair == IF i < 13 THEN (n \div Pow2(2 * (12 - i))) % 4 ELSE 0
             r    == 4 * rem + pair
             t    == 4 * root + 1
         IN  IF r >= t THEN F32SqrtDigits(n, i + 1, 2 * root + 1, r - t)
             ELSE F32SqrtDigits(n, i + 1, 2 * root, r)

\* std::sqrt (a)
F32Sqrt(a) ==
    IF a.m = 0 THEN F32Zero
    ELSE LET odd == a.e % 2 # 0
             n   == IF odd THEN 2 * a.m ELSE a.m
             e   == IF odd THEN a.e - 1 ELSE a.e
             sq  == F32SqrtDigits(n, 0, 0, 0)
             eh  == (e - 26) \div 2
         IN  IF sq.root >= Pow2(25)
             THEN LET s == sq.root \div 4
                      f == sq.root % 4
                  IN  F32Up(s, f > 2 \/ (f = 2 /\ (sq.rem > 0 \/ s % 2 = 1)), eh + 2)
             ELSE LET s == sq.root \div 2
                      f == sq.root % 2
                  IN  F32Up(s, f = 1 /\ (sq.rem > 0 \/ s % 2 = 1), eh + 1)

\* a > b
F32Greater(a, b) ==
    /\ a.m # 0
    /\ b.m = 0 \/ a.e > b.e \/ (a.e = b.e /\ a.m > b.m)

\* The whole part of a.
F32Floor(a) ==
    IF a.e >= 0 THEN a.m * Pow2(a.e)
    ELSE IF a.e < -24 THEN 0
    ELSE a.m \div Pow2(-a.e)

\* 0.0001f, the float nearest to 1/10000: 13743895 * 2^-37.
F32Threshold == [m |-> 13743895, e |-> -37]

\* |audioBuffer[i]| for a sample of u units: a sample is held as a whole
\* number of units of 0.0001f, and is the float u * 0.0001f.
F32OfSample(u) == F32Mul(F32OfInt(Abs(u)), F32Threshold)

RECURSIVE F32SumSquares(_, _)
\* sum += x * x for the floats xs in their order, from the sum acc.
F32SumSquares(xs, acc) ==
    IF xs = <<>> THEN acc
    ELSE F32SumSquares(Tail(xs), F32Add(acc, F32Mul(Head(xs), Head(xs))))

RECURSIVE FundamentalScanGE(_, _, _, _, _, _)
\* The fundamental search comparing with >= instead of >: a mutant.
FundamentalScanGE(magnitude, size, i, maxBin, maxMag, fundamentalBin) ==
    IF i <= maxBin /\ i < size \div 2
    THEN IF magnitude[i] >= maxMag
         THEN FundamentalScanGE(magnitude, size, i + 1, maxBin, magnitude[i], i)
         ELSE FundamentalScanGE(magnitude, size, i + 1, maxBin, maxMag, fundamentalBin)
    ELSE [maxMag |-> maxMag, fundamentalBin |-> fundamentalBin]

RECURSIVE FundamentalScan(_, _, _, _, _, _)
\* for (i = minBin; i <= maxBin && i < fftSize / 2; i++)
\*     if (magnitude[i] > maxMag) { maxMag = magnitude[i]; fundamentalBin = i; }
FundamentalScan(magnitude, size, i, maxBin, maxMag, fundamentalBin) ==
    IF i <= maxBin /\ i < size \div 2
    THEN IF magnitude[i] > maxMag
         THEN FundamentalScan(magnitude, size, i + 1, maxBin, magnitude[i], i)
         ELSE FundamentalScan(magnitude, size, i + 1, maxBin, maxMag, fundamentalBin)
    ELSE [maxMag |-> maxMag, fundamentalBin |-> fundamentalBin]

\* Half-width, in bins, of the region around a harmonic left out of the noise
\* estimate (THDAnalyzerPlugin.h:123).
HarmonicRegion == 10

\* static_cast<int> of the quotient a / b of two floats, b not 0: the
\* quotient is a float, and its fraction is dropped, towards zero.
TruncDiv(a, b) ==
    IF (a >= 0) = (b > 0) THEN CastOfQuotient(Abs(a), Abs(b))
    ELSE -CastOfQuotient(Abs(a), Abs(b))

\* static_cast<int>(h * fundamentalFrequency * fftSize / sampleRate), with the
\* frequency held in units of 1/fftSize Hz: the product h * fundamentalFrequency
\* is a float, the multiplication by the power of two fftSize is exact, and
\* the quotient is a float again.
harmonicBinOf(h, fundamentalFrequency, sampleRate) ==
    TruncDiv(RoundF32(h * fundamentalFrequency), sampleRate)

\* The harmonics loop's body with bins at and past fftSize / 2 folded back
\* into the spectrum instead of left out: a mutant.
harmonicAtFolded(magnitude, size, harmonicBin) ==
    magnitude[harmonicBin % (size \div 2)]

\* The harmonics loop's body (lines 103-107): the magnitude recorded for a
\* harmonic and added, squared, to harmonicSum; nothing for a bin at or past
\* fftSize / 2.
harmonicAt(magnitude, size, harmonicBin) ==
    IF harmonicBin < size \div 2 THEN magnitude[harmonicBin] ELSE 0

\* The sample of one unit: a sample of u units is the float u * 0.0001f, the
\* 0.0001f being the level above which the harmonics are analyzed (line 96).
LevelThreshold == 1

\* float sumSquares = 0; sumSquares += audioBuffer[i] * audioBuffer[i] for
\* i < bufferSize; std::sqrt (sumSquares / bufferSize)  (lines 90-94)
levelOf(audioBuffer, bufferSize) ==
    F32Sqrt(F32Div(F32SumSquares([i \in 1 .. bufferSize |->
                                     F32OfSample(audioBuffer[i])], F32Zero),
                   F32OfInt(bufferSize)))

\* The gate of line 96 without its test of the level: a mutant.
sufficientSignalAnyLevel(fundamentalFrequency, level) ==
    fundamentalFrequency > 0

\* if (result.fundamentalFrequency > 0 && result.level > 0.0001f)
sufficientSignal(fundamentalFrequency, level) ==
    /\ fundamentalFrequency > 0
    /\ F32Greater(level, F32Threshold)

\* What a float quotient with divisor 0 gives: an infinity, or a NaN for 0 / 0,
\* the floats whose biased exponent is 255, with fraction 0 and with the top
\* bit of the fraction set.  The NaN of 0.0f / 0.0f is the one the x86-64
\* divide instruction gives, which has the sign bit set (0xFFC00000), and
\* the product with 100.0f keeps it.  No float operation of analyze traps.
FloatInfinity == [m |-> Pow2(23), e |-> 105]
FloatNaN == [m |-> -(Pow2(23) + Pow2(22)), e |-> 105]

\* std::sqrt (sum of magnitude[i] * magnitude[i]) over the bins listed: the
\* magnitudes are floats that hold whole numbers.
rootOfSquares(magnitudes) ==
    F32Sqrt(F32SumSquares([k \in 1 .. Len(magnitudes) |-> F32OfInt(magnitudes[k])],
                          F32Zero))

\* (noiseBins > 0) ? std::sqrt (noiseSum / noiseBins) : 0  (line 135)
noiseLevelOf(magnitudes, noiseBins) ==
    IF noiseBins > 0
    THEN F32Sqrt(F32Div(F32SumSquares([k \in 1 .. Len(magnitudes) |->
                                          F32OfInt(magnitudes[k])], F32Zero),
                        F32OfInt(noiseBins)))
    ELSE F32Zero

\* ((harmonicLevel + noiseLevel) / maxMag) * 100.0f (line 138); line 112 is
\* the same with nothing added.
PercentOf(harmonicLevel, noiseLevel, maxMag) ==
    IF maxMag # 0
    THEN F32Mul(F32Div(F32Add(harmonicLevel, noiseLevel), F32OfInt(maxMag)),
                F32OfInt(100))
    ELSE IF harmonicLevel.m = 0 /\ noiseLevel.m = 0 THEN FloatNaN
    ELSE FloatInfinity

\* FFTAnalyzer::analyze once minBin and maxBin are known (lines 47-54 and
\* 77-142), size being the analyzer's fftSize; the spectrum is what dsp::FFT
\* returned for the windowed buffer.  thd, thdN, level and noiseFloor of the
\* result are the floats the code computes; fundamentalFrequency is held in
\* units of 1/fftSize Hz, and the harmonics, which are magnitudes of the
\* spectrum, as the whole numbers they are.
analyzeBins(audioBuffer, bufferSize, sampleRate, size, magnitude, minBin, maxBin) ==
    IF bufferSize < size
    THEN [DefaultAnalysisResult EXCEPT !.harmonics = Zeros(NumHarmonics)]
    ELSE
    LET scan   == FundamentalScan(magnitude, size, minBin, maxBin, 0, 0)
        maxMag == scan.maxMag
        fundamentalFrequency == RoundF32(scan.fundamentalBin * sampleRate)
        level  == levelOf(audioBuffer, bufferSize)
        hbin(h) == harmonicBinOf(h, fundamentalFrequency, sampleRate)
        harmonics == [k \in 1 .. NumHarmonics |->
                         harmonicAt(magnitude, size, hbin(k + 1))]
        harmonicLevel == rootOfSquares(harmonics)
        noiseSet == {i \in BinsOf(size) : i >= minBin /\
                        \A h \in 1 .. 8 : Abs(i - hbin(h)) >= HarmonicRegion}
        noiseLevel == noiseLevelOf([k \in 1 .. size \div 2 |->
                                       IF (k - 1) \in noiseSet THEN magnitude[k - 1] ELSE 0],
                                   Cardinality(noiseSet))
    IN  IF sufficientSignal(fundamentalFrequency, level)
        THEN [fundamentalFrequency |-> fundamentalFrequency,
              thd   |-> PercentOf(harmonicLevel, F32Zero, maxMag),
              thdN  |-> PercentOf(harmonicLevel, noiseLevel, maxMag),
              level |-> level,
              harmonics |-> harmonics,
              noiseFloor |-> noiseLevel]
        ELSE [fundamentalFrequency |-> fundamentalFrequency,
              thd |-> F32Zero, thdN |-> F32Zero, level |-> level,
              harmonics |-> Zeros(NumHarmonics), noiseFloor |-> F32Zero]

\* FFTAnalyzer::analyze for a sample rate that is not 0: minBin and maxBin
\* are the casts of 20 * fftSize / sampleRate and 2000 * fftSize / sampleRate
\* (lines 74-75).
analyze(audioBuffer, bufferSize, sampleRate, size, magnitude) ==
    analyzeBins(audioBuffer, bufferSize, sampleRate, size, magnitude,
                TruncDiv(20 * size, sampleRate),
                TruncDiv(2000 * size, sampleRate))

(***************************************************************************)
(* THDAnalyzerPlugin: state                                                *)
(***************************************************************************)
VARIABLES
    state,                  \* the parameter tree: pluginMode, channelId, muted, soloed
    cachedPluginMode,       \* std::atomic<int> cachedPluginMode, as the mode's name
    cachedChannelId,        \* std::atomic<int> cachedChannelId
    channels,               \* the registry: slot 0 .. ChannelCount-1
    analysisFifo,           \* the ring: index 0 .. fftSize-1
    fifoWritePosition,
    fifoFilled,
    orderedSamplesScratch,  \* the window handed to analyze
    lastAnalysis,
    midiOutputBuffer,       \* outbound staging buffer
    midiMessages,           \* the host's MIDI buffer as processBlock left it
    sampleRate,             \* getSampleRate()
    totalNumInputChannels,  \* getTotalNumInputChannels()
    prepared,               \* the host has called prepareToPlay and not releaseResources
    inFlight,               \* the MIDI events (their names) the host holds for the next block
    audioThread,            \* the audio thread's place in processBlock, and its locals
    messageThread,          \* the message thread's place in its call, and its locals
    \* history, for stating the properties:
    srcClock,               \* samples the host has delivered since construction
    justReset,              \* the last step was reset()
    pushedSinceReset,       \* the mono samples pushed since the last reset, in order
    analyzeArgs,            \* the (buffer, bufferSize) analyze got in the last processBlock, or <<>>
    lastBatch,              \* the inbound events (their names) of the last processBlock
                            \* (none after any other step)
    \* the codec on its own:
    codecMsg,               \* the message given to toMidiBytes
    codecTarget,            \* the message fromMidiBytes is called on, before the call
    codecMidi,              \* the MidiMessage between the two
    codecResult,            \* what fromMidiBytes returned and left in the message
    codecPhase,
    \* the analyzer on its own:
    anBuffer,               \* the audioBuffer given to analyze; bufferSize is its length
    anRate,                 \* the sampleRate given to analyze
    anSize,                 \* the analyzer's fftSize
    anMagnitude,            \* the magnitude spectrum of the windowed buffer
    anResult,               \* the AnalysisResult returned
    anRaised,               \* the call read outside the spectrum instead of returning
    anScan,                 \* maxMag and fundamentalBin as the fundamental search left them
    anPhase,
    \* the web application's aggregation on its own:
    agChannels,             \* the ChannelData list given to computeMasterTHD
    agResult,               \* the { thd, thdN, worstChannel } it returned
    agLastWorst,            \* the id of the channel the user muted last
    agPhase,
    \* the web application's FFTAnalyzer:
    fftAnalyzerRef,         \* the object: its maps, the nodes it created, its context
    \* its fundamental search on its own:
    fbData,                 \* the spectrum given to findFundamentalBin, data[0] first
    fbBinWidth,             \* the binWidth given to it, in Hz
    fbResult,               \* the bin it returned
    fbPhase,
    \* the useAudioEngine hook of one mounted component:
    hkPhase,                \* "rendered" (effects not yet run), "mounted", "unmounted"
    hkChannels,             \* channelsRef.current: the channels, id and level
    hkTimer,                \* the 100 ms timer: "none", "pending", "fired"
    hkRaf,                  \* an animation frame is requested (rafRef.current)
    hkRunning,              \* the tick effect's running flag
    hkTime,                 \* timeRef.current, in ticks of 0.016
    hkUpdates,              \* the Map given to onUpdate last
    hkLateCalls,            \* the analyzer methods called after dispose()
    hkLateUpdate,           \* onUpdate was invoked after the cleanups
    \* the plugin whose session data is an XML element with one child per
    \* channel (README.md, the implementation listed last):
    rtPlugin,               \* the instance: pluginMode, channelId, channels
    rtXml,                  \* the element getStateInformation wrote last
    rtSaved,                \* the instance as it was when the element was written
    rtRestored,             \* a new instance after setStateInformation of it
    rtPhase

pluginVars ==
    << state, cachedPluginMode, cachedChannelId, channels, analysisFifo,
       fifoWritePosition, fifoFilled, orderedSamplesScratch,
       lastAnalysis, midiOutputBuffer, midiMessages, sampleRate,
       totalNumInputChannels, prepared, srcClock, justReset, pushedSinceReset,
       analyzeArgs, lastBatch, inFlight, audioThread, messageThread >>

codecVars == << codecMsg, codecTarget, codecMidi, codecResult, codecPhase >>

analyzerVars ==
    << anBuffer, anRate, anSize, anMagnitude, anResult, anRaised, anScan, anPhase >>

aggregateVars == << agChannels, agResult, agLastWorst, agPhase >>

searchVars == << fbData, fbBinWidth, fbResult, fbPhase >>

hookVars ==
    << hkPhase, hkChannels, hkTimer, hkRaf, hkRunning, hkTime, hkUpdates,
       hkLateCalls, hkLateUpdate >>

sessionVars == << rtPlugin, rtXml, rtSaved, rtRestored, rtPhase >>

standaloneVars ==
    << aggregateVars, fftAnalyzerRef, searchVars, hookVars, sessionVars >>

vars == << pluginVars, codecVars, analyzerVars, standaloneVars >>

Slots == 0 .. ChannelCount - 1

\* enum class PluginMode: the enumerators are the integers 0 and 1.
ChannelStrip == 0

MasterBrain == 1

PluginModes == {ChannelStrip, MasterBrain}

\* ChannelData (id, name, color): measurements zero, not muted, not soloed.
ChannelData(id) ==
    [channelId |-> id, thd |-> FloatZero, thdN |-> FloatZero, level |-> FloatZero,
     peakLevel |-> FloatZero, harmonics |-> FloatZeros(NumHarmonics),
     muted |-> FALSE, soloed |-> FALSE]

\* createParameterLayout: the parameters' default values.
createParameterLayout ==
    [pluginMode |-> ChannelStrip, channelId |-> 0,
     muted  |-> [i \in Slots |-> FALSE],
     soloed |-> [i \in Slots |-> FALSE]]

\* juce::isPositiveAndBelow (id, channels.size())
isPositiveAndBelow(id, n) == id >= 0 /\ id < n

(***************************************************************************)
(* THDAnalyzerPlugin: the operations' effects on the parts they touch      *)
(***************************************************************************)
\* receiveTHDData that folds an out-of-range id into the table instead of
\* dropping the message: a mutant.
receiveTHDDataWrapped(chs, mode, midi) ==
    LET r == fromMidiBytes(THDDataMessage, midi)
    IN  IF mode # MasterBrain \/ ~r.ok THEN chs
        ELSE [chs EXCEPT ![r.msg.channelId % ChannelCount] =
                 [@ EXCEPT !.thd = r.msg.thd, !.thdN = r.msg.thdN,
                           !.level = r.msg.level, !.peakLevel = r.msg.peakLevel,
                           !.harmonics = r.msg.harmonics]]

\* receiveTHDData that leaves a slot alone once it holds a measurement
\* (first writer wins): a mutant.
receiveTHDDataKeepFirst(chs, mode, midi) ==
    LET r == fromMidiBytes(THDDataMessage, midi)
    IN  IF mode # MasterBrain \/ ~r.ok THEN chs
        ELSE IF ~isPositiveAndBelow(r.msg.channelId, ChannelCount) THEN chs
        ELSE IF chs[r.msg.channelId].thd # FloatZero THEN chs
        ELSE [chs EXCEPT ![r.msg.channelId] =
                 [@ EXCEPT !.thd = r.msg.thd, !.thdN = r.msg.thdN,
                           !.level = r.msg.level, !.peakLevel = r.msg.peakLevel,
                           !.harmonics = r.msg.harmonics]]

\* receiveTHDData that writes slot 0 whatever the message's channel: a mutant.
receiveTHDDataSlot0(chs, mode, midi) ==
    LET r == fromMidiBytes(THDDataMessage, midi)
    IN  IF mode # MasterBrain \/ ~r.ok THEN chs
        ELSE IF ~isPositiveAndBelow(r.msg.channelId, ChannelCount) THEN chs
        ELSE [chs EXCEPT ![0] =
                 [@ EXCEPT !.thd = r.msg.thd, !.thdN = r.msg.thdN,
                           !.level = r.msg.level, !.peakLevel = r.msg.peakLevel,
                           !.harmonics = r.msg.harmonics]]

\* receiveTHDData: the registry after one inbound MidiMessage.
receiveTHDData(chs, mode, midi) ==
    IF mode # MasterBrain THEN chs
    ELSE LET r == fromMidiBytes(THDDataMessage, midi)
         IN  IF ~r.ok THEN chs
             ELSE IF ~isPositiveAndBelow(r.msg.channelId, ChannelCount) THEN chs
             ELSE [chs EXCEPT ![r.msg.channelId] =
                      [@ EXCEPT !.thd = r.msg.thd, !.thdN = r.msg.thdN,
                                !.level = r.msg.level, !.peakLevel = r.msg.peakLevel,
                                !.harmonics = r.msg.harmonics]]

RECURSIVE receiveAllStopAtBad(_, _, _)
\* The drain loop leaving at the first event that changes nothing: a mutant.
receiveAllStopAtBad(chs, mode, events) ==
    IF events = <<>> THEN chs
    ELSE IF receiveTHDData(chs, mode, Head(events)) = chs
              /\ ~fromMidiBytes(THDDataMessage, Head(events)).ok
         THEN chs
         ELSE receiveAllStopAtBad(receiveTHDData(chs, mode, Head(events)), mode, Tail(events))

RECURSIVE receiveAll(_, _, _)
\* for (const auto metadata : midiMessages) receiveTHDData (metadata.getMessage());
receiveAll(chs, mode, events) ==
    IF events = <<>> THEN chs
    ELSE receiveAll(receiveTHDData(chs, mode, Head(events)), mode, Tail(events))

\* sendTHDDataToMaster: the staging buffer after the call.  The peak is the
\* greatest magnitude of the block's samples, a sample of peakLevel units.
sendTHDDataToMaster(buffer, mode, chId, analysis, peakLevel) ==
    IF mode # ChannelStrip THEN buffer
    ELSE LET msg == [channelId |-> chId,
                     thd       |-> BitsOf(analysis.thd),
                     thdN      |-> BitsOf(analysis.thdN),
                     level     |-> BitsOf(analysis.level),
                     peakLevel |-> BitsOf(F32OfSample(peakLevel)),
                     harmonics |-> [i \in 1 .. NumHarmonics |->
                                       IF i <= Len(analysis.harmonics)
                                       THEN F32(analysis.harmonics[i])
                                       ELSE FloatZero]]
         IN  addEvent(buffer, toMidiBytes(msg))

\* One step of pushSamplesToAnalysisFifo's loop that sets the flag one sample
\* early: a mutant.
pushSampleEarlyFlag(f, sample) ==
    LET next == (f.pos + 1) % fftSize
    IN  [fifo   |-> [f.fifo EXCEPT ![f.pos] = sample],
         pos    |-> next,
         filled |-> IF next = fftSize - 1 THEN TRUE ELSE f.filled]

\* One step of pushSamplesToAnalysisFifo's loop.
pushSample(f, sample) ==
    LET next == (f.pos + 1) % fftSize
    IN  [fifo   |-> [f.fifo EXCEPT ![f.pos] = sample],
         pos    |-> next,
         filled |-> IF next = 0 THEN TRUE ELSE f.filled]

RECURSIVE pushSamplesToAnalysisFifo(_, _)
\* pushSamplesToAnalysisFifo: ring, write position and flag after the block.
pushSamplesToAnalysisFifo(f, monoBuffer) ==
    IF monoBuffer = <<>> THEN f
    ELSE pushSamplesToAnalysisFifo(pushSample(f, Head(monoBuffer)), Tail(monoBuffer))

\* The ordered copy starting one slot late: a mutant.
readOrderedLate(fifo, writePosition) ==
    [i \in 1 .. fftSize |-> fifo[(writePosition + i) % fftSize]]

\* processBlock's ordered copy: orderedSamplesScratch[i] =
\* analysisFifo[(fifoWritePosition + i) % fftSize], i = 0 .. fftSize-1.
readOrdered(fifo, writePosition) ==
    [i \in 1 .. fftSize |-> fifo[(writePosition + (i - 1)) % fftSize]]

\* reset's loop over the channels, leaving the registry as it is: a mutant.
resetChannelsKeep(chs) == chs

\* reset's loop putting muted and soloed back to false as well: a mutant.
resetChannelsAll(chs) ==
    [i \in Slots |-> [chs[i] EXCEPT !.thd = FloatZero, !.thdN = FloatZero,
                                    !.level = FloatZero, !.peakLevel = FloatZero,
                                    !.harmonics = FloatZeros(NumHarmonics),
                                    !.muted = FALSE, !.soloed = FALSE]]

\* reset's loop over the channels.
resetChannels(chs) ==
    [i \in Slots |-> [chs[i] EXCEPT !.thd = FloatZero, !.thdN = FloatZero,
                                    !.level = FloatZero, !.peakLevel = FloatZero,
                                    !.harmonics = FloatZeros(NumHarmonics)]]

\* reset leaving fifoFilled as it is: a mutant.
resetFifoKeepFlag(f) ==
    [fifo |-> [i \in 0 .. fftSize - 1 |-> 0], pos |-> 0, filled |-> f.filled]

\* reset, on the ring: zero-filled, write position 0, not filled.
resetFifo(f) ==
    [fifo |-> [i \in 0 .. fftSize - 1 |-> 0], pos |-> 0, filled |-> FALSE]

(***************************************************************************)
(* Inputs                                                                  *)
(***************************************************************************)
\* The sample the host delivers as its t-th (t = 1, 2, ...): all distinct, of
\* both signs, so that every position of the ring can be told from the others.
HostSample(t) == IF t % 2 = 1 THEN t ELSE -t

\* Spectra dsp::FFT can return for a buffer that is not all zero: a peak at
\* bin 1 with or without a second harmonic at bin 2, and a peak at the last bin.
Spectra ==
    {[i \in Bins |-> IF i = 1 THEN 8 ELSE IF i = 2 THEN b ELSE 0] : b \in {0, 2}}
    \cup {[i \in Bins |-> IF i = (fftSize \div 2) - 1 THEN 4 ELSE 0]}

ZeroSpectrum == [i \in Bins |-> 0]

\* windowBuffer[i] = 0.5f * (1.0f - cos (2 pi i / (fftSize - 1))) is 0 at
\* i = 0 and at i = fftSize - 1, and above 0 in between.
WindowIsZero(size, i) == i = 0 \/ i = size - 1

\* fftData[i * 2] = audioBuffer[i] * windowBuffer[i] is 0 for every i: the
\* transform is given silence.
WindowedIsZero(size, buffer) ==
    \A i \in 0 .. size - 1 :
        i < Len(buffer) => (WindowIsZero(size, i) \/ buffer[i + 1] = 0)

\* The transform is linear: a windowed buffer of zeros gives the zero
\* spectrum.
TransformOutputs(buffer) ==
    IF WindowedIsZero(fftSize, buffer) THEN {ZeroSpectrum} ELSE Spectra

\* Telemetry payloads of the inbound events.
PayloadA ==
    [thd |-> F32(1), thdN |-> F32(2), level |-> F32(3), peakLevel |-> F32(4),
     harmonics |-> [h \in 1 .. NumHarmonics |-> F32(10 + h)]]

PayloadB ==
    [thd |-> F32(5), thdN |-> F32(6), level |-> F32(-1), peakLevel |-> F32(7),
     harmonics |-> [h \in 1 .. NumHarmonics |-> F32(20 + h)]]

MessageOf(id, p) ==
    [channelId |-> id, thd |-> p.thd, thdN |-> p.thdN, level |-> p.level,
     peakLevel |-> p.peakLevel, harmonics |-> p.harmonics]

\* A sysex event carrying the frame's 47 protocol bytes followed by n more.
Padded(frame, n) == SubSeq(frame, 1, Len(frame) - 1) \o Zeros(n) \o << 247 >>

\* Events fromMidiBytes accepts, for slots 0 and 1.
Slot0A == Padded(toMidiBytes(MessageOf(0, PayloadA)), 2)
Slot0B == Padded(toMidiBytes(MessageOf(0, PayloadB)), 2)
Slot1A == Padded(toMidiBytes(MessageOf(1, PayloadA)), 2)

\* Events that are dropped: channel id 250; the 49-byte frame toMidiBytes
\* builds; a wrong manufacturer byte; a note-on; a truncated frame.
Id250    == Padded(toMidiBytes(MessageOf(250, PayloadB)), 2)
Encoded1 == toMidiBytes(MessageOf(1, PayloadB))
WrongId  == [Padded(toMidiBytes(MessageOf(1, PayloadB)), 2) EXCEPT ![2] = 126]
NoteOn   == << 144, 60, 100 >>
Cut      == SubSeq(toMidiBytes(MessageOf(1, PayloadB)), 1, 20) \o << 247 >>

\* The inbound events by name.
Event ==
    [Slot0A |-> Slot0A, Slot0B |-> Slot0B, Slot1A |-> Slot1A, Id250 |-> Id250,
     Encoded1 |-> Encoded1, WrongId |-> WrongId, NoteOn |-> NoteOn, Cut |-> Cut]

\* The MidiBuffer holding the named events in this order.
Events(names) == [k \in 1 .. Len(names) |-> Event[names[k]]]

RECURSIVE SeqsUpTo(_, _)
\* The sequences over S of length at most n.
SeqsUpTo(S, n) ==
    IF n = 0 THEN {<<>>}
    ELSE LET shorter == SeqsUpTo(S, n - 1)
         IN  shorter \cup {Append(q, x) : q \in shorter, x \in S}

(***************************************************************************)
(* THDAnalyzerPlugin: operations                                           *)
(***************************************************************************)
\* No processBlock under way.  entry is the registry as the call found it,
\* modes the values getPluginMode() returned to the call so far, inbound the
\* names of the events the host handed it.
AudioIdle ==
    [pc |-> "idle", numSamples |-> 0, peakLevel |-> 0, loaded |-> <<>>,
     flag |-> 0, events |-> <<>>, inbound |-> <<>>, entry |-> <<>>, modes |-> {}]

\* No call of the message thread under way.
MessageIdle == [pc |-> "idle", arg |-> <<>>, flag |-> 0]

\* After the constructor: the eight channels, the parameters at their
\* defaults and cached, buffers empty.  The host has not prepared the plugin.
InitPlugin ==
    /\ state = createParameterLayout
    /\ cachedPluginMode = ChannelStrip
    /\ cachedChannelId = 0
    /\ channels = [i \in Slots |-> ChannelData(i)]
    /\ analysisFifo = [i \in 0 .. fftSize - 1 |-> 0]
    /\ fifoWritePosition = 0
    /\ fifoFilled = FALSE
    /\ orderedSamplesScratch = Zeros(fftSize)
    /\ lastAnalysis = DefaultAnalysisResult
    /\ midiOutputBuffer = <<>>
    /\ midiMessages = <<>>
    /\ sampleRate = 0
    /\ totalNumInputChannels \in {1, 2}
    /\ prepared = FALSE
    /\ srcClock = 0
    /\ justReset = FALSE
    /\ pushedSinceReset = <<>>
    /\ analyzeArgs = <<>>
    /\ lastBatch = <<>>
    /\ inFlight = <<>>
    /\ audioThread = AudioIdle
    /\ messageThread = MessageIdle

InitCodecIdle ==
    /\ codecMsg = THDDataMessage
    /\ codecTarget = THDDataMessage
    /\ codecMidi = MidiMessage
    /\ codecResult = [ok |-> FALSE, msg |-> THDDataMessage]
    /\ codecPhase = "idle"

InitAnalyzerIdle ==
    /\ anBuffer = <<>>
    /\ anRate = 0
    /\ anSize = fftSize
    /\ anMagnitude = ZeroSpectrum
    /\ anResult = DefaultAnalysisResult
    /\ anRaised = FALSE
    /\ anScan = [maxMag |-> 0, fundamentalBin |-> 0]
    /\ anPhase = "idle"

(***************************************************************************)
(* The web application (src/lib/useAudioEngine.ts).  Percentages are held  *)
(* in thousandths of a percent, so that the 0.001 and the 10 of the        *)
(* aggregation are the integers 1 and 10000; a square root is rounded      *)
(* down to a thousandth.                                                   *)
(***************************************************************************)
Null == "<null>"

AggregateFloor == 1

AggregateCeiling == 10000

Min(a, b) == IF a < b THEN a ELSE b

RECURSIVE SqrtBetween(_, _, _)
SqrtBetween(n, lo, hi) ==
    IF lo >= hi THEN lo
    ELSE LET mid == (lo + hi + 1) \div 2
         IN IF mid * mid <= n THEN SqrtBetween(n, mid, hi)
                              ELSE SqrtBetween(n, lo, mid - 1)

\* Math.sqrt on a non-negative number, rounded down.
MathSqrt(n) == SqrtBetween(n, 0, Min(n, 46340))

\* channels.filter((c) => !c.muted)
NotMuted(c) == ~c.muted

\* A filter that also drops the channels that are not soloed as soon as one
\* channel is soloed: a mutant.
activeChannelsSoloFirst(channelList) ==
    LET unmuted == SelectSeq(channelList, NotMuted)
        IsSoloed(c) == c.soloed
    IN  IF \E i \in 1 .. Len(unmuted) : unmuted[i].soloed
        THEN SelectSeq(unmuted, IsSoloed)
        ELSE unmuted

activeChannelsOf(channelList) == SelectSeq(channelList, NotMuted)

\* activeChannels.reduce((acc, ch) => acc + ch.thd * ch.thd, 0) and its thdN
\* twin, by the field summed.
RECURSIVE sumSquared(_, _)
sumSquared(list, field) ==
    IF list = <<>> THEN 0
    ELSE sumSquared(SubSeq(list, 1, Len(list) - 1), field)
         + list[Len(list)][field] * list[Len(list)][field]

\* The reduce keeping the later channel on equal thd: a mutant.
RECURSIVE worstOfKeepingLast(_)
worstOfKeepingLast(list) ==
    IF Len(list) = 1 THEN list[1]
    ELSE LET worst == worstOfKeepingLast(SubSeq(list, 1, Len(list) - 1))
             ch    == list[Len(list)]
         IN  IF ch.thd >= worst.thd THEN ch ELSE worst

\* activeChannels.reduce((worst, ch) => ch.thd > worst.thd ? ch : worst):
\* without an initial value the first channel starts as the worst.
RECURSIVE worstOf(_)
worstOf(list) ==
    IF Len(list) = 1 THEN list[1]
    ELSE LET worst == worstOf(SubSeq(list, 1, Len(list) - 1))
             ch    == list[Len(list)]
         IN  IF ch.thd > worst.thd THEN ch ELSE worst

computeMasterTHD(channelList) ==
    LET activeChannels == activeChannelsOf(channelList)
        sumTHDSquared  == sumSquared(activeChannels, "thd")
        masterTHD      == MathSqrt(sumTHDSquared \div Len(activeChannels))
        sumTHDNSquared == sumSquared(activeChannels, "thdN")
        masterTHDN     == MathSqrt(sumTHDNSquared \div Len(activeChannels))
        worstChannel   == worstOf(activeChannels).name
    IN  IF Len(activeChannels) = 0
        THEN [thd |-> 0, thdN |-> 0, worstChannel |-> Null]
        ELSE [thd  |-> Max(AggregateFloor, Min(masterTHD, AggregateCeiling)),
              thdN |-> Max(AggregateFloor, Min(masterTHDN, AggregateCeiling)),
              worstChannel |-> worstChannel]

InitAggregateIdle ==
    /\ agChannels = <<>>
    /\ agResult = [thd |-> 0, thdN |-> 0, worstChannel |-> Null]
    /\ agLastWorst = Null
    /\ agPhase = "idle"

\* The channel ids of the application's first channels (app/page.tsx).
SignalChannels == {"ch1", "ch2", "ch3"}

\* new FFTAnalyzer() in a browser: a running context, an analyser, two empty
\* maps.  nodes lists every OscillatorNode created on the context, with the
\* channel and the generateTestSignal call it was created for; connected
\* holds the calls whose gainNode is connected to the analyser.
NewFFTAnalyzer ==
    [oscillators |-> [c \in {} |-> 0],
     gains       |-> [c \in {} |-> 0],
     nodes       |-> <<>>,
     connected   |-> {},
     closed      |-> FALSE]

\* m.delete(k)
MapDelete(m, k) == [c \in (DOMAIN m) \ {k} |-> m[c]]

\* m.set(k, v)
MapSet(m, k, v) == [c \in (DOMAIN m) \cup {k} |-> IF c = k THEN v ELSE m[c]]

\* node.stop() on the nodes whose index is in the set.
StopNodes(nodes, indices) ==
    [n \in 1 .. Len(nodes) |->
        IF n \in indices THEN [nodes[n] EXCEPT !.stopped = TRUE] ELSE nodes[n]]

\* stopSignal (channelId) on the analyzer a.
stopSignalOn(a, channelId) ==
    LET hasOscillator == channelId \in DOMAIN a.oscillators
        hasGain       == channelId \in DOMAIN a.gains
    IN  [a EXCEPT
           !.nodes = IF hasOscillator
                     THEN StopNodes(@, {a.oscillators[channelId]})
                     ELSE @,
           !.oscillators = IF hasOscillator THEN MapDelete(@, channelId) ELSE @,
           !.connected = IF hasGain THEN @ \ {a.gains[channelId]} ELSE @,
           !.gains = IF hasGain THEN MapDelete(@, channelId) ELSE @]

\* generateTestSignal (channelId, frequency, amplitude) on the analyzer a:
\* the channel's signal is stopped, an oscillator and a detune oscillator
\* are created and started, and the oscillator and the gain node are put in
\* the maps.
generateTestSignalOn(a, channelId) ==
    LET b      == stopSignalOn(a, channelId)
        signal == Len(b.nodes) \div 2 + 1
        oscillator == [channelId |-> channelId, role |-> "oscillator",
                       signal |-> signal, stopped |-> FALSE]
        detune     == [channelId |-> channelId, role |-> "detune",
                       signal |-> signal, stopped |-> FALSE]
    IN  [b EXCEPT
           !.nodes = @ \o << oscillator, detune >>,
           !.connected = @ \cup {signal},
           !.oscillators = MapSet(@, channelId, Len(b.nodes) + 1),
           !.gains = MapSet(@, channelId, signal)]

\* dispose() on the analyzer a.
disposeOn(a) ==
    [a EXCEPT
       !.nodes = StopNodes(@, { a.oscillators[c] : c \in DOMAIN a.oscillators }),
       !.oscillators = [c \in {} |-> 0],
       !.connected = {},
       !.gains = [c \in {} |-> 0],
       !.closed = TRUE]

InitSignalIdle == fftAnalyzerRef = NewFFTAnalyzer

\* Math.round (a / b) for a >= 0 and b > 0: halves go up.
MathRound(a, b) == (2 * a + b) \div (2 * b)

SearchFrom == 20

SearchTo == 2000

\* -Infinity, below every value of a spectrum.
NegativeInfinity == -2147483647

\* data[i] of a Float32Array held as a sequence.
At(data, i) == data[i + 1]

\* The loop of findFundamentalBin from bin i on: maxMagnitude and maxBinIndex
\* after it.
RECURSIVE peakScan(_, _, _, _, _)
peakScan(data, i, maxBin, maxMagnitude, maxBinIndex) ==
    IF i <= maxBin /\ i < Len(data)
    THEN IF At(data, i) > maxMagnitude
         THEN peakScan(data, i + 1, maxBin, At(data, i), i)
         ELSE peakScan(data, i + 1, maxBin, maxMagnitude, maxBinIndex)
    ELSE maxBinIndex

findFundamentalBin(data, binWidth) ==
    LET minBin == MathRound(SearchFrom, binWidth)
        maxBin == MathRound(SearchTo, binWidth)
        maxBinIndex == peakScan(data, minBin, maxBin, NegativeInfinity, minBin)
    IN  IF maxBinIndex > 0 /\ maxBinIndex < Len(data) - 1
        THEN IF /\ At(data, maxBinIndex - 1) > At(data, maxBinIndex)
                /\ At(data, maxBinIndex - 1) > At(data, maxBinIndex + 1)
             THEN maxBinIndex - 1
             ELSE IF /\ At(data, maxBinIndex + 1) > At(data, maxBinIndex)
                     /\ At(data, maxBinIndex + 1) > At(data, maxBinIndex - 1)
                  THEN maxBinIndex + 1
                  ELSE maxBinIndex
        ELSE maxBinIndex

InitSearchIdle ==
    /\ fbData = <<>>
    /\ fbBinWidth = 1
    /\ fbResult = 0
    /\ fbPhase = "idle"

InitHookIdle ==
    /\ hkPhase = "idle"
    /\ hkChannels = <<>>
    /\ hkTimer = "none"
    /\ hkRaf = FALSE
    /\ hkRunning = FALSE
    /\ hkTime = 0
    /\ hkUpdates = [c \in {} |-> 0]
    /\ hkLateCalls = {}
    /\ hkLateUpdate = FALSE

\* static_cast<int> (pluginMode): the value of the enumeration, which for the
\* two enumerators is 0 or 1.
ModeAsInt(mode) == mode

\* static_cast<PluginMode> (int): the enumeration has the underlying type int
\* and keeps every integer, also one that is neither enumerator.
IntAsMode(n) == n

\* XmlElement::setAttribute (name, int) of a bool: the text "1" or "0".
BoolAttribute(b) == IF b THEN "1" ELSE "0"

\* XmlElement::getBoolAttribute (name, false) of such a text.
getBoolAttribute(text) == text = "1"

\* The plugin after its constructor: ChannelStrip, channel id 0, slot i with
\* channelId i, not muted, not soloed.
NewSessionPlugin ==
    [pluginMode |-> ChannelStrip,
     channelId  |-> 0,
     channels   |-> [i \in Slots |->
                        [channelId |-> i, muted |-> FALSE, soloed |-> FALSE]]]

\* setChannelId (id) on the instance p.
setChannelIdOn(p, id) ==
    IF isPositiveAndBelow(id, ChannelCount)
    THEN [p EXCEPT !.channelId = id, !.channels[0].channelId = id]
    ELSE p

\* getStateInformation of the instance p: the element before copyXmlToBinary,
\* with one child per slot in slot order.
getStateInformationOf(p) ==
    [pluginMode |-> ModeAsInt(p.pluginMode),
     channelId  |-> p.channelId,
     children   |-> [n \in 1 .. ChannelCount |->
                        [id     |-> p.channels[n - 1].channelId,
                         muted  |-> BoolAttribute(p.channels[n - 1].muted),
                         soloed |-> BoolAttribute(p.channels[n - 1].soloed)]]]

\* The loop of setStateInformation over the first n children.
RECURSIVE restoreChildren(_, _, _)
restoreChildren(chs, children, n) ==
    IF n = 0 THEN chs
    ELSE LET before == restoreChildren(chs, children, n - 1)
             id     == children[n].id
         IN  IF ~isPositiveAndBelow(id, ChannelCount) THEN before
             ELSE [before EXCEPT
                     ![id].muted = getBoolAttribute(children[n].muted),
                     ![id].soloed = getBoolAttribute(children[n].soloed)]

\* setStateInformation of the element xml on the instance p.
setStateInformationOn(p, xml) ==
    LET q == setChannelIdOn([p EXCEPT !.pluginMode = IntAsMode(xml.pluginMode)],
                            xml.channelId)
    IN  [q EXCEPT !.channels = restoreChildren(@, xml.children, Len(xml.children))]

InitSessionIdle ==
    /\ rtPlugin = NewSessionPlugin
    /\ rtXml = getStateInformationOf(NewSessionPlugin)
    /\ rtSaved = NewSessionPlugin
    /\ rtRestored = NewSessionPlugin
    /\ rtPhase = "idle"

InitStandaloneIdle ==
    /\ InitAggregateIdle /\ InitSignalIdle /\ InitSearchIdle /\ InitHookIdle
    /\ InitSessionIdle

\* juce::jlimit (lo, hi, v)
jlimit(lo, hi, v) == IF v < lo THEN lo ELSE IF v > hi THEN hi ELSE v

RECURSIVE FlagsFrom(_)
\* The flags the loop of syncCachedParametersFromState (lines 490-497) loads
\* and stores from slot i on, in the loop's order: muted, then soloed, of
\* each slot up to the last.
FlagsFrom(i) ==
    IF i >= ChannelCount THEN <<>>
    ELSE << [field |-> "muted", slot |-> i], [field |-> "soloed", slot |-> i] >>
         \o FlagsFrom(i + 1)

\* The sixteen flags one call of syncCachedParametersFromState stores.
SyncedFlags == FlagsFrom(0)

\* mutedParam->load() >= 0.5f, soloedParam->load() >= 0.5f
loadFlag(st, flag) ==
    IF flag.field = "muted" THEN st.muted[flag.slot] ELSE st.soloed[flag.slot]

\* The store of lines 493 and 496 zeroing the slot's thd and level on its
\* way: a mutant.
storeFlagClearing(chs, flag, value) ==
    IF flag.field = "muted"
    THEN [chs EXCEPT ![flag.slot] =
             [@ EXCEPT !.muted = value, !.thd = FloatZero, !.level = FloatZero]]
    ELSE [chs EXCEPT ![flag.slot] =
             [@ EXCEPT !.soloed = value, !.thd = FloatZero, !.level = FloatZero]]

\* channels[i].muted = ..., channels[i].soloed = ... (lines 493, 496)
storeFlag(chs, flag, value) ==
    IF flag.field = "muted"
    THEN [chs EXCEPT ![flag.slot] = [@ EXCEPT !.muted = value]]
    ELSE [chs EXCEPT ![flag.slot] = [@ EXCEPT !.soloed = value]]

(***************************************************************************)
(* Two threads call into the plugin.  The host's audio thread calls        *)
(* processBlock; the message thread calls setPluginMode, setChannelId and  *)
(* setStateInformation and moves the parameters behind the buttons.  No    *)
(* lock is taken: a call of one thread runs while a call of the other is   *)
(* under way.  A call is a sequence of steps, each holding at most one     *)
(* access to something the other thread writes or reads: the parameters    *)
(* (atomic floats), cachedPluginMode and cachedChannelId (atomic ints), a  *)
(* slot's muted and soloed (plain bools written by both threads, which the *)
(* language leaves undefined: the stores land in either order).  The       *)
(* thread's place in its call is pc; loaded is what it read and has not    *)
(* stored yet.  The host calls prepareToPlay and releaseResources between  *)
(* blocks, never during one.                                               *)
(***************************************************************************)
ringVars ==
    << analysisFifo, fifoWritePosition, fifoFilled, orderedSamplesScratch,
       lastAnalysis, srcClock, pushedSinceReset, analyzeArgs >>

hostVars == << sampleRate, totalNumInputChannels, prepared, inFlight >>

otherVars == << codecVars, analyzerVars, standaloneVars >>

\* The audio thread goes on to the next statement of processBlock.
AudioGoes(next) ==
    /\ audioThread' = next
    /\ lastBatch' = <<>>
    /\ justReset' = FALSE

\* processBlock returns.
AudioReturns ==
    /\ audioThread' = AudioIdle
    /\ lastBatch' = audioThread.inbound
    /\ justReset' = FALSE

\* The message thread goes on to the next statement of its call, or returns.
MessageGoes(next) ==
    /\ messageThread' = next
    /\ lastBatch' = <<>>
    /\ justReset' = FALSE

\* setPluginMode clearing the registry's measurements on a change of mode: a
\* mutant.
setPluginModeClearing(mode) ==
    /\ messageThread.pc = "idle"
    /\ state' = [state EXCEPT !.pluginMode = mode]
    /\ channels' = IF mode = cachedPluginMode THEN channels
                   ELSE [i \in Slots |-> [channels[i] EXCEPT !.thd = FloatZero]]
    /\ MessageGoes([MessageIdle EXCEPT !.pc = "storeMode", !.arg = << mode >>])
    /\ UNCHANGED << cachedPluginMode, cachedChannelId, midiOutputBuffer,
                    midiMessages, audioThread, ringVars, hostVars, otherVars >>

\* setPluginMode, up to modeParam->setValueNotifyingHost (line 505).
setPluginMode(mode) ==
    /\ messageThread.pc = "idle"
    /\ state' = [state EXCEPT !.pluginMode = mode]
    /\ MessageGoes([MessageIdle EXCEPT !.pc = "storeMode", !.arg = << mode >>])
    /\ UNCHANGED << cachedPluginMode, cachedChannelId, channels, midiOutputBuffer,
                    midiMessages, audioThread, ringVars, hostVars, otherVars >>

\* setPluginMode: cachedPluginMode.store (line 506), and the return.
setPluginModeStores ==
    /\ messageThread.pc = "storeMode"
    /\ cachedPluginMode' = messageThread.arg[1]
    /\ MessageGoes(MessageIdle)
    /\ UNCHANGED << state, cachedChannelId, channels, midiOutputBuffer,
                    midiMessages, audioThread, ringVars, hostVars, otherVars >>

\* setChannelId, up to channelParam->setValueNotifyingHost (line 520); an id
\* that is no slot's returns at once.
setChannelId(id) ==
    /\ messageThread.pc = "idle"
    /\ IF isPositiveAndBelow(id, ChannelCount)
       THEN /\ state' = [state EXCEPT !.channelId = id]
            /\ MessageGoes([MessageIdle EXCEPT !.pc = "storeId", !.arg = << id >>])
       ELSE /\ state' = state
            /\ MessageGoes(MessageIdle)
    /\ UNCHANGED << cachedPluginMode, cachedChannelId, channels, midiOutputBuffer,
                    midiMessages, audioThread, ringVars, hostVars, otherVars >>

\* setChannelId: cachedChannelId.store and channels[0].channelId = id (lines
\* 522-523), which processBlock neither reads nor writes, and the return.
setChannelIdStores ==
    /\ messageThread.pc = "storeId"
    /\ cachedChannelId' = messageThread.arg[1]
    /\ channels' = [channels EXCEPT ![0].channelId = messageThread.arg[1]]
    /\ MessageGoes(MessageIdle)
    /\ UNCHANGED << state, cachedPluginMode, midiOutputBuffer,
                    midiMessages, audioThread, ringVars, hostVars, otherVars >>

\* The mute button of channel card i, attached to parameter channelMuted<i>:
\* a click flips the parameter.  The registry follows at the next sync.
toggleMuted(i) ==
    /\ messageThread.pc = "idle"
    /\ state' = [state EXCEPT !.muted[i] = ~@]
    /\ MessageGoes(MessageIdle)
    /\ UNCHANGED << cachedPluginMode, cachedChannelId, channels, midiOutputBuffer,
                    midiMessages, audioThread, ringVars, hostVars, otherVars >>

\* The solo button of channel card i, attached to parameter channelSoloed<i>.
toggleSoloed(i) ==
    /\ messageThread.pc = "idle"
    /\ state' = [state EXCEPT !.soloed[i] = ~@]
    /\ MessageGoes(MessageIdle)
    /\ UNCHANGED << cachedPluginMode, cachedChannelId, channels, midiOutputBuffer,
                    midiMessages, audioThread, ringVars, hostVars, otherVars >>

\* setStateInformation, up to state.replaceState (line 810): data that is no
\* XML returns at once; a valid tree replaces the parameters.
setStateInformation(restored) ==
    /\ messageThread.pc = "idle"
    /\ IF restored.xml
       THEN /\ state' = IF restored.valid THEN restored.tree ELSE state
            /\ MessageGoes([MessageIdle EXCEPT !.pc = "syncMode"])
       ELSE /\ state' = state
            /\ MessageGoes(MessageIdle)
    /\ UNCHANGED << cachedPluginMode, cachedChannelId, channels, midiOutputBuffer,
                    midiMessages, audioThread, ringVars, hostVars, otherVars >>

\* setStateInformation, in syncCachedParametersFromState: line 485.  The
\* parameters are written by this thread alone, so the load and the store
\* make one step.
setStateInformationSyncsMode ==
    /\ messageThread.pc = "syncMode"
    /\ cachedPluginMode' = IntAsMode(jlimit(0, 1, ModeAsInt(state.pluginMode)))
    /\ MessageGoes([MessageIdle EXCEPT !.pc = "syncId"])
    /\ UNCHANGED << state, cachedChannelId, channels, midiOutputBuffer,
                    midiMessages, audioThread, ringVars, hostVars, otherVars >>

\* setStateInformation, in syncCachedParametersFromState: line 488.
setStateInformationSyncsChannelId ==
    /\ messageThread.pc = "syncId"
    /\ cachedChannelId' = jlimit(0, 7, state.channelId)
    /\ MessageGoes([MessageIdle EXCEPT !.pc = "syncFlag", !.flag = 1])
    /\ UNCHANGED << state, cachedPluginMode, channels, midiOutputBuffer,
                    midiMessages, audioThread, ringVars, hostVars, otherVars >>

\* setStateInformation, in syncCachedParametersFromState: one of lines 493
\* and 496; after the last, the return.
setStateInformationSyncsFlag ==
    /\ messageThread.pc = "syncFlag"
    /\ LET flag == SyncedFlags[messageThread.flag]
       IN  channels' = storeFlag(channels, flag, loadFlag(state, flag))
    /\ MessageGoes(IF messageThread.flag < Len(SyncedFlags)
                   THEN [messageThread EXCEPT !.flag = @ + 1]
                   ELSE MessageIdle)
    /\ UNCHANGED << state, cachedPluginMode, cachedChannelId, midiOutputBuffer,
                    midiMessages, audioThread, ringVars, hostVars, otherVars >>

\* prepareToPlay, which is reset(); the host has set the sample rate.
prepareToPlay(rate) ==
    LET f == resetFifo([fifo |-> analysisFifo, pos |-> fifoWritePosition,
                        filled |-> fifoFilled])
    IN  /\ audioThread.pc = "idle"
        /\ analysisFifo' = f.fifo
        /\ fifoWritePosition' = f.pos
        /\ fifoFilled' = f.filled
        /\ orderedSamplesScratch' = Zeros(fftSize)
        /\ lastAnalysis' = DefaultAnalysisResult
        /\ midiOutputBuffer' = <<>>
        /\ channels' = resetChannels(channels)
        /\ sampleRate' = rate
        /\ prepared' = TRUE
        /\ justReset' = TRUE
        /\ pushedSinceReset' = <<>>
        /\ analyzeArgs' = <<>>
        /\ lastBatch' = <<>>
        /\ UNCHANGED << state, cachedPluginMode, cachedChannelId, midiMessages,
                        totalNumInputChannels, srcClock, inFlight, audioThread,
                        messageThread, otherVars >>

\* releaseResources
releaseResources ==
    /\ prepared
    /\ audioThread.pc = "idle"
    /\ midiOutputBuffer' = <<>>
    /\ prepared' = FALSE
    /\ lastBatch' = <<>>
    /\ justReset' = FALSE
    /\ UNCHANGED << state, cachedPluginMode, cachedChannelId, channels,
                    midiMessages, sampleRate, totalNumInputChannels, inFlight,
                    audioThread, messageThread, ringVars, otherVars >>

\* processBlock on a block of numSamples samples per input channel, with the
\* events in flight put into midiMessages by the host: lines 651-693, which
\* touch what the audio thread alone uses, and the load of the pluginMode
\* parameter in syncCachedParametersFromState (line 485).  The spectrum
\* dsp::FFT returns, if the analysis runs, is any of TransformOutputs.
processBlock(numSamples) ==
    LET inbound == inFlight
        channelData == [c \in 1 .. totalNumInputChannels |->
                           [i \in 1 .. numSamples |-> HostSample(srcClock + i)]]
        RECURSIVE Sum(_, _), Peak(_, _, _)
        Sum(c, i) == IF c = 0 THEN 0 ELSE channelData[c][i] + Sum(c - 1, i)
        Peak(c, i, acc) ==
            IF c > totalNumInputChannels THEN acc
            ELSE IF i > numSamples THEN Peak(c + 1, 1, acc)
            ELSE Peak(c, i + 1, Max(acc, Abs(channelData[c][i])))
        peakLevel == Peak(1, 1, 0)
        \* monoBufferScratch: rebuilt from zeros by every call (ensureScratchBuffers)
        monoBuffer == [i \in 1 .. numSamples |->
                          IF totalNumInputChannels > 0
                          THEN Sum(totalNumInputChannels, i) \div totalNumInputChannels
                          ELSE 0]
        f == pushSamplesToAnalysisFifo(
                 [fifo |-> analysisFifo, pos |-> fifoWritePosition,
                  filled |-> fifoFilled], monoBuffer)
        ordered == IF f.filled THEN readOrdered(f.fifo, f.pos)
                   ELSE orderedSamplesScratch
    IN  /\ prepared
        /\ audioThread.pc = "idle"
        /\ srcClock + numSamples <= MaxClock
        /\ analysisFifo' = f.fifo
        /\ fifoWritePosition' = f.pos
        /\ fifoFilled' = f.filled
        /\ orderedSamplesScratch' = ordered
        /\ \E magnitude \in (IF f.filled THEN TransformOutputs(ordered) ELSE {ZeroSpectrum}) :
              lastAnalysis' = IF f.filled
                              THEN analyze(ordered, fftSize, sampleRate, fftSize, magnitude)
                              ELSE lastAnalysis
        /\ midiMessages' = Events(inbound)
        /\ inFlight' = <<>>
        /\ srcClock' = srcClock + numSamples
        /\ pushedSinceReset' = pushedSinceReset \o monoBuffer
        /\ analyzeArgs' = IF f.filled THEN << ordered, fftSize >> ELSE <<>>
        /\ AudioGoes([AudioIdle EXCEPT !.pc = "storeMode",
                                       !.numSamples = numSamples,
                                       !.peakLevel = peakLevel,
                                       !.loaded = << state.pluginMode >>,
                                       !.events = inbound,
                                       !.inbound = inbound,
                                       !.entry = << channels >>])
        /\ UNCHANGED << state, cachedPluginMode, cachedChannelId, channels,
                        midiOutputBuffer, sampleRate, totalNumInputChannels,
                        prepared, messageThread, otherVars >>

\* processBlock, in syncCachedParametersFromState: cachedPluginMode.store of
\* the mode loaded (line 485).
processBlockStoresMode ==
    /\ audioThread.pc = "storeMode"
    /\ cachedPluginMode' = IntAsMode(jlimit(0, 1, ModeAsInt(audioThread.loaded[1])))
    /\ AudioGoes([audioThread EXCEPT !.pc = "loadId", !.loaded = <<>>])
    /\ UNCHANGED << state, cachedChannelId, channels, midiOutputBuffer,
                    midiMessages, messageThread, ringVars, hostVars, otherVars >>

\* processBlock, in syncCachedParametersFromState: channelParam->load()
\* (line 488).
processBlockLoadsChannelId ==
    /\ audioThread.pc = "loadId"
    /\ AudioGoes([audioThread EXCEPT !.pc = "storeId", !.loaded = << state.channelId >>])
    /\ UNCHANGED << state, cachedPluginMode, cachedChannelId, channels,
                    midiOutputBuffer, midiMessages, messageThread, ringVars,
                    hostVars, otherVars >>

\* processBlock, in syncCachedParametersFromState: cachedChannelId.store of
\* the id loaded (line 488).
processBlockStoresChannelId ==
    /\ audioThread.pc = "storeId"
    /\ cachedChannelId' = jlimit(0, 7, audioThread.loaded[1])
    /\ AudioGoes([audioThread EXCEPT !.pc = "loadFlag", !.loaded = <<>>,
                                     !.flag = 1])
    /\ UNCHANGED << state, cachedPluginMode, channels, midiOutputBuffer,
                    midiMessages, messageThread, ringVars, hostVars, otherVars >>

\* processBlock, in syncCachedParametersFromState: the load of a muted or
\* soloed parameter (lines 493, 496).
processBlockLoadsFlag ==
    /\ audioThread.pc = "loadFlag"
    /\ AudioGoes([audioThread EXCEPT
                     !.pc = "storeFlag",
                     !.loaded = << loadFlag(state, SyncedFlags[audioThread.flag]) >>])
    /\ UNCHANGED << state, cachedPluginMode, cachedChannelId, channels,
                    midiOutputBuffer, midiMessages, messageThread, ringVars,
                    hostVars, otherVars >>

\* processBlock, in syncCachedParametersFromState: the store of the flag
\* loaded into the slot (lines 493, 496).
processBlockStoresFlag ==
    /\ audioThread.pc = "storeFlag"
    /\ channels' = storeFlag(channels, SyncedFlags[audioThread.flag],
                             audioThread.loaded[1])
    /\ AudioGoes(IF audioThread.flag < Len(SyncedFlags)
                 THEN [audioThread EXCEPT !.pc = "loadFlag", !.loaded = <<>>,
                                          !.flag = @ + 1]
                 ELSE [audioThread EXCEPT !.pc = "ifChannelStrip", !.loaded = <<>>,
                                          !.flag = 0])
    /\ UNCHANGED << state, cachedPluginMode, cachedChannelId, midiOutputBuffer,
                    midiMessages, messageThread, ringVars, hostVars, otherVars >>

\* processBlock: if (getPluginMode() == PluginMode::ChannelStrip) (line 697).
processBlockChecksChannelStrip ==
    /\ audioThread.pc = "ifChannelStrip"
    /\ AudioGoes([audioThread EXCEPT
                     !.pc = IF cachedPluginMode = ChannelStrip
                            THEN "send" ELSE "ifMasterBrain",
                     !.modes = @ \cup {cachedPluginMode}])
    /\ UNCHANGED << state, cachedPluginMode, cachedChannelId, channels,
                    midiOutputBuffer, midiMessages, messageThread, ringVars,
                    hostVars, otherVars >>

\* processBlock, in sendTHDDataToMaster: the test of getPluginMode() (line
\* 534).  In another mode nothing is staged, and lines 701-703 hand the host
\* what the staging buffer holds.
processBlockSends ==
    /\ audioThread.pc = "send"
    /\ IF cachedPluginMode = ChannelStrip
       THEN /\ AudioGoes([audioThread EXCEPT !.pc = "stage",
                                             !.modes = @ \cup {cachedPluginMode}])
            /\ UNCHANGED << midiOutputBuffer, midiMessages >>
       ELSE /\ midiMessages' =
                   addEvents(<<>>,
                             sendTHDDataToMaster(midiOutputBuffer, cachedPluginMode,
                                 cachedChannelId, lastAnalysis, audioThread.peakLevel),
                             audioThread.numSamples)
            /\ midiOutputBuffer' = <<>>
            /\ AudioReturns
    /\ UNCHANGED << state, cachedPluginMode, cachedChannelId, channels,
                    messageThread, ringVars, hostVars, otherVars >>

\* processBlock, in sendTHDDataToMaster: getChannelId() and the staging of
\* the message (lines 538-549); then lines 701-703, and the return.
processBlockStages ==
    /\ audioThread.pc = "stage"
    /\ midiMessages' =
           addEvents(<<>>,
                     sendTHDDataToMaster(midiOutputBuffer, ChannelStrip,
                         cachedChannelId, lastAnalysis, audioThread.peakLevel),
                     audioThread.numSamples)
    /\ midiOutputBuffer' = <<>>
    /\ AudioReturns
    /\ UNCHANGED << state, cachedPluginMode, cachedChannelId, channels,
                    messageThread, ringVars, hostVars, otherVars >>

\* processBlock: else if (getPluginMode() == PluginMode::MasterBrain) (line
\* 705).  In another mode the call returns with midiMessages as the host
\* handed it; in MasterBrain mode without an event, line 710 and the return.
processBlockChecksMasterBrain ==
    /\ audioThread.pc = "ifMasterBrain"
    /\ IF cachedPluginMode = MasterBrain /\ audioThread.events # <<>>
       THEN /\ AudioGoes([audioThread EXCEPT !.pc = "receive",
                                             !.modes = @ \cup {cachedPluginMode}])
            /\ midiMessages' = midiMessages
       ELSE /\ midiMessages' = IF cachedPluginMode = MasterBrain THEN <<>>
                               ELSE midiMessages
            /\ AudioReturns
    /\ UNCHANGED << state, cachedPluginMode, cachedChannelId, channels,
                    midiOutputBuffer, messageThread, ringVars, hostVars, otherVars >>

\* processBlock: receiveTHDData of the next event (line 708), which tests
\* getPluginMode() itself (line 554); after the last event, line 710 and the
\* return.
processBlockReceives ==
    /\ audioThread.pc = "receive"
    /\ channels' = receiveTHDData(channels, cachedPluginMode,
                                  Event[Head(audioThread.events)])
    /\ IF Len(audioThread.events) > 1
       THEN /\ AudioGoes([audioThread EXCEPT !.events = Tail(@),
                                             !.modes = @ \cup {cachedPluginMode}])
            /\ midiMessages' = midiMessages
       ELSE /\ midiMessages' = <<>>
            /\ AudioReturns
    /\ UNCHANGED << state, cachedPluginMode, cachedChannelId, midiOutputBuffer,
                    messageThread, ringVars, hostVars, otherVars >>

(***************************************************************************)
(* The codec on its own: a message is encoded, the MidiMessage reaches the *)
(* decoder as it is, with bytes added before its 0xF7, cut short, with an  *)
(* identifier byte changed, or replaced by another message; then it is     *)
(* decoded into the target message.                                        *)
(***************************************************************************)
\* Field values with every kind of bit pattern: -0, a denormal, an infinity,
\* NaNs, bytes 0xF0 and 0xF7, all bits set.
PayloadC ==
    [thd |-> [s |-> 1, e |-> 0, m |-> 0],
     thdN |-> [s |-> 0, e |-> 0, m |-> 1],
     level |-> [s |-> 0, e |-> 255, m |-> 0],
     peakLevel |-> [s |-> 1, e |-> 255, m |-> 8388607],
     harmonics |-> [h \in 1 .. NumHarmonics |->
                       [s |-> h % 2, e |-> 239 + h, m |-> 112 * 65536 + 240 * 256 + 247]]]

Payloads == {PayloadA, PayloadB, PayloadC}

\* channelId values: in 0..255 and, as an int allows, outside.
CodecChannelIds == {0, 7, 250, 255, 259, -1}

CodecMessages == {MessageOf(id, p) : id \in CodecChannelIds, p \in Payloads}

CodecTargets == {THDDataMessage, MessageOf(3, PayloadB)}

\* Number of bytes added before the closing 0xF7, at most.
MaxPad == 3

InitCodec ==
    /\ codecMsg \in CodecMessages
    /\ codecTarget \in CodecTargets
    /\ codecMidi = MidiMessage
    /\ codecResult = [ok |-> FALSE, msg |-> codecTarget]
    /\ codecPhase = "start"

\* msg.toMidiBytes (midi)
Encode ==
    /\ codecPhase = "start"
    /\ codecMidi' = toMidiBytes(codecMsg)
    /\ codecPhase' = "encoded"
    /\ UNCHANGED << pluginVars, analyzerVars, standaloneVars, codecMsg, codecTarget, codecResult >>

\* n bytes are added before the closing 0xF7.
PadFrame(n) ==
    /\ codecPhase = "encoded"
    /\ codecMidi' = Padded(codecMidi, n)
    /\ codecPhase' = "padded"
    /\ UNCHANGED << pluginVars, analyzerVars, standaloneVars, codecMsg, codecTarget, codecResult >>

\* Only the first k bytes arrive.
Truncate(k) ==
    /\ codecPhase \in {"encoded", "padded"}
    /\ k < Len(codecMidi)
    /\ codecMidi' = SubSeq(codecMidi, 1, k)
    /\ codecPhase' = "corrupted"
    /\ UNCHANGED << pluginVars, analyzerVars, standaloneVars, codecMsg, codecTarget, codecResult >>

\* Byte i (1 or 2, after the 0xF0) arrives as b.
WrongIdentifier(i, b) ==
    /\ codecPhase \in {"encoded", "padded"}
    /\ codecMidi[i + 1] # b
    /\ codecMidi' = [codecMidi EXCEPT ![i + 1] = b]
    /\ codecPhase' = "corrupted"
    /\ UNCHANGED << pluginVars, analyzerVars, standaloneVars, codecMsg, codecTarget, codecResult >>

\* Another message arrives: an empty one, a note-on, or the frame's bytes
\* after a status byte that is not 0xF0.
OtherMessages(midi) == {MidiMessage, NoteOn, [midi EXCEPT ![1] = 176]}

Replace ==
    /\ codecPhase \in {"encoded", "padded"}
    /\ codecMidi' \in OtherMessages(codecMidi)
    /\ codecPhase' = "corrupted"
    /\ UNCHANGED << pluginVars, analyzerVars, standaloneVars, codecMsg, codecTarget, codecResult >>

\* target.fromMidiBytes (midi)
Decode ==
    /\ codecPhase \in {"encoded", "padded", "corrupted"}
    /\ codecResult' = fromMidiBytes(codecTarget, codecMidi)
    /\ codecPhase' = "decoded"
    /\ UNCHANGED << pluginVars, analyzerVars, standaloneVars, codecMsg, codecTarget, codecMidi >>

InitCodecSpec == InitPlugin /\ InitCodec /\ InitAnalyzerIdle /\ InitStandaloneIdle

NextCodec ==
    \/ Encode
    \/ \E n \in 1 .. MaxPad : PadFrame(n)
    \/ \E k \in {0, 1, 3, 4, 20, 47, 48, 49, 50} : Truncate(k)
    \/ \E i \in {1, 2}, b \in {0, 1, 125, 126} : WrongIdentifier(i, b)
    \/ Replace
    \/ Decode

SpecCodec == InitCodecSpec /\ [][NextCodec]_vars

\* The MidiMessage the decoder was given is the one toMidiBytes built.
DeliveredAsEncoded == codecMidi = toMidiBytes(codecMsg)

\* C1: for every message with channelId in 0..255 and any field values,
\* fromMidiBytes on the MidiMessage toMidiBytes built succeeds and leaves a
\* message equal to the original on every field.
C1_RoundTrip ==
    (codecPhase = "decoded" /\ codecMsg.channelId \in 0 .. 255 /\ DeliveredAsEncoded)
        => (codecResult.ok /\ codecResult.msg = codecMsg)

\* A frame of toMidiBytes, with channelId in 0..255, has been decoded.
C1_Witness ==
    /\ codecPhase = "decoded"
    /\ codecMsg.channelId \in 0 .. 255
    /\ DeliveredAsEncoded

\* (a) not a sysex message, or an empty one.
NotSysExOrEmpty(midi) == ~isSysEx(midi) \/ midi = MidiMessage

\* (b) the bytes after the 0xF0 are not 0x7D 0x01.
WrongIdentifiers(midi) == Len(midi) < 3 \/ midi[2] # 125 \/ midi[3] # 1

\* (c) a frame cut to fewer bytes than the 3-byte header and the 45-byte payload.
CutShort(midi) ==
    /\ Len(midi) < 3 + 45
    /\ midi = SubSeq(toMidiBytes(codecMsg), 1, Len(midi))

\* C2: fromMidiBytes returns false and leaves every field of the target
\* message as it was, for an input that is not sysex or is empty, that carries
\* identifier bytes other than 0x7D 0x01, or that is a frame cut short of
\* header plus payload.
C2_RejectsGarbage ==
    (/\ codecPhase = "decoded"
     /\ \/ NotSysExOrEmpty(codecMidi)
        \/ WrongIdentifiers(codecMidi)
        \/ CutShort(codecMidi))
        => (~codecResult.ok /\ codecResult.msg = codecTarget)

\* A sysex message long enough to pass the size check, with a wrong first
\* identifier byte, has been decoded into a target that was not all zero.
C2_Witness ==
    /\ codecPhase = "decoded"
    /\ isSysEx(codecMidi)
    /\ getSysExDataSize(codecMidi) >= MinSysExDataSize
    /\ codecMidi[2] # 125
    /\ codecTarget # THDDataMessage
    /\ ~codecResult.ok

\* C3: toMidiBytes builds, for every message, 49 bytes: 0xF0, 0x7D, 0x01, the
\* channelId as an unsigned 8-bit value, the four bytes of thd, of thdN, of
\* level and of peakLevel, the four bytes of each harmonic H2 first to H8
\* last, and 0xF7.
C3_FrameLayout ==
    codecPhase = "encoded" =>
        /\ Len(codecMidi) = 49
        /\ codecMidi[1] = 240 /\ codecMidi[2] = 125 /\ codecMidi[3] = 1
        /\ codecMidi[4] \in Byte
        /\ (codecMidi[4] - codecMsg.channelId) % 256 = 0
        /\ SubSeq(codecMidi, 5, 8) = FloatBytes(codecMsg.thd)
        /\ SubSeq(codecMidi, 9, 12) = FloatBytes(codecMsg.thdN)
        /\ SubSeq(codecMidi, 13, 16) = FloatBytes(codecMsg.level)
        /\ SubSeq(codecMidi, 17, 20) = FloatBytes(codecMsg.peakLevel)
        /\ \A h \in 1 .. NumHarmonics :
              SubSeq(codecMidi, 17 + 4 * h, 20 + 4 * h)
                  = FloatBytes(codecMsg.harmonics[h])
        /\ codecMidi[49] = 247
        /\ \A i \in 1 .. 49 : codecMidi[i] \in Byte

\* A message whose channelId does not fit eight bits and whose harmonics all
\* differ has been encoded.
C3_Witness ==
    /\ codecPhase = "encoded"
    /\ codecMsg = MessageOf(259, PayloadA)
    /\ codecMidi[4] = 3

(***************************************************************************)
(* The plugin under the host, MIDI side: blocks without audio samples,     *)
(* each with a batch of inbound events.                                    *)
(***************************************************************************)
\* The events that are dropped, by kind: a channel id out of range, wrong
\* identifier bytes, a message that is not sysex, a payload cut short, the
\* 49-byte frame of toMidiBytes.
DroppedKinds == << "Id250", "WrongId", "NoteOn", "Cut", "Encoded1" >>

\* The batches: up to MaxBatch events, each an accepted one for slot 0 or 1
\* or a dropped one; the kind of a dropped event goes round the kinds with
\* its position and the length of the batch, so that every kind occurs.
Batches ==
    {[k \in 1 .. Len(q) |->
         IF q[k] = "Dropped"
         THEN DroppedKinds[((k + Len(q)) % Len(DroppedKinds)) + 1]
         ELSE q[k]] :
        q \in SeqsUpTo({"Slot0A", "Slot0B", "Slot1A", "Dropped"}, MaxBatch)}

\* The host has a batch of events for the plugin's next block.
hostQueues(batch) ==
    /\ inFlight = <<>>
    /\ audioThread.pc = "idle"
    /\ batch # <<>>
    /\ inFlight' = batch
    /\ lastBatch' = <<>>
    /\ justReset' = FALSE
    /\ UNCHANGED << state, cachedPluginMode, cachedChannelId, channels,
                    midiOutputBuffer, midiMessages, sampleRate,
                    totalNumInputChannels, prepared, audioThread, messageThread,
                    ringVars, otherVars >>

InitMaster == InitPlugin /\ totalNumInputChannels = 2 /\ InitCodecIdle /\ InitAnalyzerIdle /\ InitStandaloneIdle

NextMaster ==
    \/ prepareToPlay(160)
    \/ \E mode \in PluginModes : setPluginMode(mode)
    \/ setPluginModeStores
    \/ \E batch \in Batches : hostQueues(batch)
    \/ processBlock(0)
    \/ processBlockStoresMode
    \/ processBlockLoadsChannelId
    \/ processBlockStoresChannelId
    \/ processBlockLoadsFlag
    \/ processBlockStoresFlag
    \/ processBlockChecksChannelStrip
    \/ processBlockSends
    \/ processBlockStages
    \/ processBlockChecksMasterBrain
    \/ processBlockReceives

SpecMaster == InitMaster /\ [][NextMaster]_vars

\* What fromMidiBytes makes of each inbound event.
DecodedEvent ==
    [Slot0A   |-> fromMidiBytes(THDDataMessage, Slot0A),
     Slot0B   |-> fromMidiBytes(THDDataMessage, Slot0B),
     Slot1A   |-> fromMidiBytes(THDDataMessage, Slot1A),
     Id250    |-> fromMidiBytes(THDDataMessage, Id250),
     Encoded1 |-> fromMidiBytes(THDDataMessage, Encoded1),
     WrongId  |-> fromMidiBytes(THDDataMessage, WrongId),
     NoteOn   |-> fromMidiBytes(THDDataMessage, NoteOn),
     Cut      |-> fromMidiBytes(THDDataMessage, Cut)]

Decoded(name) == DecodedEvent[name]

\* The named event decodes and its channelId is one of the registry's slots.
ValidEvent(name) ==
    Decoded(name).ok /\ Decoded(name).msg.channelId \in 0 .. ChannelCount - 1

ValidOnly(names) == SelectSeq(names, ValidEvent)

\* The registry as the processBlock under way found it.
AtEntry == audioThread.entry[1]

\* The return of a processBlock in MasterBrain mode with a batch that is not
\* empty: every getPluginMode() of the call, the one of this step included,
\* returned MasterBrain.
MasterStep ==
    /\ audioThread.pc # "idle"
    /\ audioThread' = AudioIdle
    /\ lastBatch' # <<>>
    /\ audioThread.modes \cup {cachedPluginMode} = {MasterBrain}

\* C4: in MasterBrain mode, a batch with invalid messages in it (that do not
\* decode, or whose channelId is not in 0..channelCount-1) leaves the registry
\* as the same batch without them does: an invalid message changes no slot
\* and the messages after it are still processed.
C4_InvalidDropped ==
    [][MasterStep =>
          /\ channels' = receiveAll(AtEntry, MasterBrain, Events(ValidOnly(lastBatch')))
          /\ (ValidOnly(lastBatch') = <<>> => channels' = AtEntry)]_vars

\* A batch of a frame that does not decode, a message with channel id 250
\* and an accepted message for slot 0 has been processed: slot 0 holds the
\* last one, slots 1 and 250 mod 8 hold nothing.
C4_Witness ==
    /\ cachedPluginMode = MasterBrain
    /\ lastBatch = << "Encoded1", "Id250", "Slot0A" >>
    /\ channels[0].thd = PayloadA.thd
    /\ channels[1].thd = FloatZero
    /\ channels[2].thd = FloatZero

\* The slot after msg has been written to it.
Written(slot, msg) ==
    [slot EXCEPT !.thd = msg.thd, !.thdN = msg.thdN, !.level = msg.level,
                 !.peakLevel = msg.peakLevel, !.harmonics = msg.harmonics]

\* The positions of the batch holding a valid message for slot k.
PositionsFor(batch, k) ==
    {i \in 1 .. Len(batch) :
        ValidEvent(batch[i]) /\ Decoded(batch[i]).msg.channelId = k}

\* C5: in MasterBrain mode, after processBlock has drained the batch, a slot
\* the batch had a valid message for holds the thd, thdN, level, peakLevel and
\* harmonics of the last such message in delivery order; every other slot is
\* unchanged.
C5_LastWriterWins ==
    [][MasterStep =>
          \A k \in Slots :
              LET at == PositionsFor(lastBatch', k)
              IN  IF at = {} THEN channels'[k] = AtEntry[k]
                  ELSE LET last == CHOOSE i \in at : \A j \in at : j <= i
                       IN  channels'[k] =
                               Written(AtEntry[k], Decoded(lastBatch'[last]).msg)]_vars

\* Two messages for slot 0 with one for slot 1 between them have been
\* processed: slot 0 holds the later one.
C5_Witness ==
    /\ cachedPluginMode = MasterBrain
    /\ lastBatch = << "Slot0A", "Slot1A", "Slot0B" >>
    /\ channels[0].thd = PayloadB.thd
    /\ channels[0].harmonics = PayloadB.harmonics
    /\ channels[1].thd = PayloadA.thd

RECURSIVE Orders(_)
\* The orders in which the positions in S can be taken.
Orders(S) ==
    IF S = {} THEN {<<>>}
    ELSE UNION {{<<x>> \o p : p \in Orders(S \ {x})} : x \in S}

\* The batch delivered in the order p.
Reordered(batch, p) == [k \in 1 .. Len(batch) |-> batch[p[k]]]

\* The order p keeps the valid messages of each channel in the batch's order.
KeepsChannelOrder(batch, p) ==
    \A i, j \in 1 .. Len(batch) :
        (/\ i < j
         /\ ValidEvent(batch[p[i]]) /\ ValidEvent(batch[p[j]])
         /\ Decoded(batch[p[i]]).msg.channelId = Decoded(batch[p[j]]).msg.channelId)
            => p[i] < p[j]

\* The batch without its i-th event.
WithoutAt(batch, i) ==
    [k \in 1 .. Len(batch) - 1 |-> IF k < i THEN batch[k] ELSE batch[k + 1]]

\* C6: a valid message delivered twice leaves the registry as the message
\* delivered once does, and every delivery order of the batch that keeps each
\* channel's own messages in order leaves the same registry.
C6_IdempotentIndependent ==
    [][MasterStep =>
          /\ \A i \in 1 .. Len(lastBatch') - 1 :
                (lastBatch'[i] = lastBatch'[i + 1] /\ ValidEvent(lastBatch'[i]))
                    => channels' = receiveAll(AtEntry, MasterBrain,
                                              Events(WithoutAt(lastBatch', i)))
          /\ \A batch \in {Reordered(lastBatch', p) :
                               p \in {q \in Orders(1 .. Len(lastBatch')) :
                                          KeepsChannelOrder(lastBatch', q)}} :
                channels' = receiveAll(AtEntry, MasterBrain, Events(batch))]_vars

\* Messages for slots 0 and 1 in an order that can be interleaved otherwise
\* have been processed, the two of slot 0 in their order.
C6_Witness ==
    /\ cachedPluginMode = MasterBrain
    /\ lastBatch = << "Slot0B", "Slot1A", "Slot0A" >>
    /\ channels[0].thd = PayloadA.thd
    /\ channels[1].thd = PayloadA.thd

\* The same message for slot 0 has been delivered twice in a row.
C6_WitnessTwice ==
    /\ cachedPluginMode = MasterBrain
    /\ lastBatch = << "Slot0B", "Slot0B" >>
    /\ channels[0].thd = PayloadB.thd

(***************************************************************************)
(* The plugin under the host, audio side: blocks of no sample, of one, of  *)
(* a window less one, of a window, and of more than two windows; no        *)
(* inbound events.                                                         *)
(***************************************************************************)
BlockSizes == {0, 1, fftSize - 1, fftSize, 2 * fftSize + 1}

Init == InitPlugin /\ InitCodecIdle /\ InitAnalyzerIdle /\ InitStandaloneIdle

Next ==
    \/ prepareToPlay(160)
    \/ \E mode \in PluginModes : setPluginMode(mode)
    \/ setPluginModeStores
    \/ \E n \in BlockSizes : processBlock(n)
    \/ processBlockStoresMode
    \/ processBlockLoadsChannelId
    \/ processBlockStoresChannelId
    \/ processBlockLoadsFlag
    \/ processBlockStoresFlag
    \/ processBlockChecksChannelStrip
    \/ processBlockSends
    \/ processBlockStages
    \/ processBlockChecksMasterBrain

Spec == Init /\ [][Next]_vars

\* The last n elements of a sequence of at least n.
LastN(seq, n) == SubSeq(seq, Len(seq) - n + 1, Len(seq))

\* The ring as the pushes alone leave it: slot i holds the latest sample
\* pushed at a position i modulo fftSize, or zero.
RingOf(pushed) ==
    [i \in 0 .. fftSize - 1 |->
        LET at == {j \in 1 .. Len(pushed) : (j - 1) % fftSize = i}
        IN  IF at = {} THEN 0
            ELSE pushed[CHOOSE j \in at : \A k \in at : k <= j]]

\* C7: once at least fftSize samples have been pushed since the last reset,
\* in chunks of any sizes, the ordered read gives the last fftSize pushed
\* samples, oldest first; the read that processBlock made gave analyze
\* exactly these, and left ring, write position and flag as the pushes alone
\* leave them.
C7_OrderedRead ==
    /\ Len(pushedSinceReset) >= fftSize =>
           readOrdered(analysisFifo, fifoWritePosition)
               = LastN(pushedSinceReset, fftSize)
    /\ analyzeArgs # <<>> =>
           /\ analyzeArgs[1] = LastN(pushedSinceReset, fftSize)
           /\ orderedSamplesScratch = analyzeArgs[1]
    /\ analysisFifo = RingOf(pushedSinceReset)
    /\ fifoWritePosition = Len(pushedSinceReset) % fftSize
    /\ fifoFilled = (Len(pushedSinceReset) >= fftSize)

\* More than two windows have been pushed, the write position is inside the
\* ring, and the analysis has read the window.
C7_Witness ==
    /\ Len(pushedSinceReset) > 2 * fftSize
    /\ fifoWritePosition = 2
    /\ analyzeArgs # <<>>
    /\ analyzeArgs[1][fftSize] = pushedSinceReset[Len(pushedSinceReset)]

\* A step that is a reset.
ResetStep == justReset'

\* C8: fifoFilled is true exactly when at least fftSize samples have been
\* pushed since the last reset; the write position is in 0..fftSize-1 and is
\* the number of samples pushed since the last reset modulo fftSize; once
\* true, the flag stays true until the next reset.
C8_FlagAndCursor ==
    /\ [](/\ fifoFilled <=> Len(pushedSinceReset) >= fftSize
          /\ fifoWritePosition \in 0 .. fftSize - 1
          /\ fifoWritePosition = Len(pushedSinceReset) % fftSize)
    /\ [][(fifoFilled /\ ~ResetStep) => fifoFilled']_vars

\* In a second session exactly fftSize samples have been pushed: the flag is
\* set and the write position is back at 0.
C8_Witness ==
    /\ fifoFilled
    /\ Len(pushedSinceReset) = fftSize
    /\ fifoWritePosition = 0
    /\ srcClock > fftSize

\* C9: processBlock calls analyze only once at least fftSize samples have
\* been pushed since the last reset, and then on exactly fftSize samples;
\* until then the last analysis result is the default one.
C9_NoUnderfullAnalysis ==
    /\ analyzeArgs # <<>> =>
           /\ Len(pushedSinceReset) >= fftSize
           /\ analyzeArgs[2] = fftSize
           /\ Len(analyzeArgs[1]) = fftSize
    /\ Len(pushedSinceReset) < fftSize =>
           /\ analyzeArgs = <<>>
           /\ lastAnalysis = DefaultAnalysisResult

\* After a session in which the ring was full, a block has been processed in
\* a new session with the ring not yet full: analyze was not called.
C9_WitnessSkipped ==
    /\ srcClock > fftSize + 1
    /\ Len(pushedSinceReset) = fftSize - 1
    /\ ~justReset
    /\ analyzeArgs = <<>>

\* analyze has been called on the block that brought the count to fftSize + 1.
C9_Witness ==
    /\ analyzeArgs # <<>>
    /\ Len(pushedSinceReset) = fftSize + 1
    /\ lastAnalysis # DefaultAnalysisResult

(***************************************************************************)
(* The plugin under the host across sessions: audio blocks that fill the   *)
(* ring, telemetry in both directions, prepareToPlay and releaseResources. *)
(***************************************************************************)
ResetBlockSizes == {0, fftSize - 1, fftSize + 1}

ResetBatches == {<< "Slot0A" >>, << "Id250", "Slot1A" >>}

InitReset == InitPlugin /\ totalNumInputChannels = 1 /\ InitCodecIdle /\ InitAnalyzerIdle /\ InitStandaloneIdle

NextReset ==
    \/ prepareToPlay(160)
    \/ releaseResources
    \/ \E mode \in PluginModes : setPluginMode(mode)
    \/ setPluginModeStores
    \/ \E batch \in ResetBatches : hostQueues(batch)
    \/ \E n \in ResetBlockSizes : processBlock(n)
    \/ processBlockStoresMode
    \/ processBlockLoadsChannelId
    \/ processBlockStoresChannelId
    \/ processBlockLoadsFlag
    \/ processBlockStoresFlag
    \/ processBlockChecksChannelStrip
    \/ processBlockSends
    \/ processBlockStages
    \/ processBlockChecksMasterBrain
    \/ processBlockReceives

SpecReset == InitReset /\ [][NextReset]_vars

\* The slot's measurements are all zero.
ZeroMeasurements(slot) ==
    /\ slot.thd = FloatZero /\ slot.thdN = FloatZero
    /\ slot.level = FloatZero /\ slot.peakLevel = FloatZero
    /\ slot.harmonics = FloatZeros(NumHarmonics)

\* The state reset() leaves.
Cleared ==
    /\ analysisFifo = [i \in 0 .. fftSize - 1 |-> 0]
    /\ fifoWritePosition = 0
    /\ ~fifoFilled
    /\ lastAnalysis = DefaultAnalysisResult
    /\ midiOutputBuffer = <<>>
    /\ \A k \in Slots : ZeroMeasurements(channels[k])

\* The analysis window and the last analysis result come from samples pushed
\* since the last reset only.
NothingStale ==
    /\ analyzeArgs # <<>> =>
           \A i \in 1 .. fftSize :
               \E j \in 1 .. Len(pushedSinceReset) :
                   analyzeArgs[1][i] = pushedSinceReset[j]
    /\ IF Len(pushedSinceReset) < fftSize
       THEN lastAnalysis = DefaultAnalysisResult
       ELSE \E magnitude \in Spectra \cup {ZeroSpectrum} :
                lastAnalysis = analyze(LastN(pushedSinceReset, fftSize), fftSize,
                                       sampleRate, fftSize, magnitude)

\* A registry slot changes only by being zeroed in a reset or by being
\* written from a message of the batch the processBlock under way was handed.
SlotsFromThisBatch ==
    \A k \in Slots :
        channels'[k] # channels[k] =>
            \/ ResetStep /\ ZeroMeasurements(channels'[k])
            \/ /\ audioThread.pc = "receive"
               /\ \E i \in PositionsFor(audioThread.inbound, k) :
                     channels'[k] = Written(channels[k], Decoded(audioThread.inbound[i]).msg)

\* The largest magnitude among the host's samples from..to.
PeakOfBlock(from, to) ==
    LET mags == {Abs(HostSample(t)) : t \in from .. to}
    IN  CHOOSE m \in mags : \A x \in mags : x <= m

\* The processBlock under way returns from its ChannelStrip branch.
StripReturns == audioThread.pc \in {"send", "stage"} /\ audioThread' = AudioIdle

\* A block of at least one sample that emits telemetry emits one message,
\* built from the analysis result as the block left it and from the block's
\* own peak.
EmitsFromThisBlock ==
    (StripReturns /\ midiMessages' # <<>> /\ audioThread.numSamples > 0) =>
        midiMessages' =
            sendTHDDataToMaster(<<>>, ChannelStrip, cachedChannelId, lastAnalysis,
                                PeakOfBlock(srcClock - audioThread.numSamples + 1,
                                            srcClock))

\* C10: reset() (prepareToPlay) leaves the ring all zero, the write position
\* 0, the flag false, the last analysis result the default, the staging
\* buffer empty and the measurements of every registry slot zero; and after
\* it no analysis window, analysis result, registry value or emitted
\* telemetry message holds a sample or a measurement from before it.
C10_ResetClears ==
    /\ [](justReset => Cleared)
    /\ []NothingStale
    /\ [][SlotsFromThisBatch /\ EmitsFromThisBlock]_vars

\* A reset has followed a session in which the ring was full and telemetry
\* was emitted.
C10_Witness ==
    /\ justReset
    /\ srcClock > fftSize
    /\ midiMessages # <<>>
    /\ midiMessages \notin {Events(batch) : batch \in ResetBatches}
    /\ Len(midiMessages[1]) > 20

\* In a session after a full one, a block too short to fill the ring has
\* emitted telemetry, with the default analysis result in it.
C10_WitnessFresh ==
    /\ ~justReset
    /\ srcClock = 2 * fftSize
    /\ Len(pushedSinceReset) = fftSize - 1
    /\ cachedPluginMode = ChannelStrip
    /\ audioThread.pc = "idle"
    /\ midiMessages # <<>>
    /\ midiMessages \notin {Events(batch) : batch \in ResetBatches}
    /\ lastAnalysis = DefaultAnalysisResult

(***************************************************************************)
(* The plugin under its controls: the channel id and the mode are set, the *)
(* mute and solo buttons clicked, a saved state restored, between resets   *)
(* and blocks with and without inbound telemetry.                          *)
(***************************************************************************)
\* Arguments of setChannelId: below the range, inside it, above it.
ControlIds == {-1, 3, ChannelCount}

\* What setStateInformation is given: data that is no XML, and a saved tree.
RestoredStates ==
    {[xml |-> FALSE, valid |-> FALSE, tree |-> createParameterLayout],
     [xml |-> TRUE, valid |-> TRUE,
      tree |-> [pluginMode |-> MasterBrain, channelId |-> 3,
                muted  |-> [i \in Slots |-> i = 1],
                soloed |-> [i \in Slots |-> FALSE]]]}

ControlBatches == {<< "Slot1A", "Id250" >>}

ControlBlockSizes == {0, fftSize}

\* The host delivers one window of samples.
ControlClock == fftSize

InitControl == InitPlugin /\ totalNumInputChannels = 1 /\ InitCodecIdle /\ InitAnalyzerIdle /\ InitStandaloneIdle

NextControl ==
    \/ \E id \in ControlIds : setChannelId(id)
    \/ setChannelIdStores
    \/ \E mode \in PluginModes : setPluginMode(mode)
    \/ setPluginModeStores
    \/ \E restored \in RestoredStates : setStateInformation(restored)
    \/ setStateInformationSyncsMode
    \/ setStateInformationSyncsChannelId
    \/ setStateInformationSyncsFlag
    \/ prepareToPlay(160)
    \/ \E batch \in ControlBatches : hostQueues(batch)
    \/ \E n \in ControlBlockSizes : srcClock + n <= ControlClock /\ processBlock(n)
    \/ processBlockStoresMode
    \/ processBlockLoadsChannelId
    \/ processBlockStoresChannelId
    \/ processBlockLoadsFlag
    \/ processBlockStoresFlag
    \/ processBlockChecksChannelStrip
    \/ processBlockSends
    \/ processBlockStages
    \/ processBlockChecksMasterBrain
    \/ processBlockReceives

SpecControl == InitControl /\ [][NextControl]_vars

(***************************************************************************)
(* The plugin under its mute and solo buttons: the buttons of the eight    *)
(* channel cards are clicked and a saved state is restored while the       *)
(* window of samples is processed, in ChannelStrip mode or, the mode       *)
(* having been set, in MasterBrain mode with inbound telemetry.            *)
(***************************************************************************)
\* channels[i].muted or channels[i].soloed
flagOf(chs, flag) ==
    IF flag.field = "muted" THEN chs[flag.slot].muted ELSE chs[flag.slot].soloed

\* The user works one button at a time: a button is clicked while every
\* other mute and solo flag is clear in the parameters, in the registry and
\* in what processBlock has loaded and not stored yet.
AloneInPlay(flag) ==
    /\ \A k \in 1 .. Len(SyncedFlags) :
          SyncedFlags[k] # flag =>
              ~loadFlag(state, SyncedFlags[k]) /\ ~flagOf(channels, SyncedFlags[k])
    /\ audioThread.pc = "storeFlag" =>
          (SyncedFlags[audioThread.flag] = flag \/ ~audioThread.loaded[1])

FlagBatches == {<< "Slot1A" >>}

NextFlags ==
    \/ \E i \in Slots : AloneInPlay([field |-> "muted", slot |-> i]) /\ toggleMuted(i)
    \/ \E i \in Slots : AloneInPlay([field |-> "soloed", slot |-> i]) /\ toggleSoloed(i)
    \/ setPluginMode(MasterBrain)
    \/ setPluginModeStores
    \/ \E restored \in RestoredStates : setStateInformation(restored)
    \/ setStateInformationSyncsMode
    \/ setStateInformationSyncsChannelId
    \/ setStateInformationSyncsFlag
    \/ prepareToPlay(160)
    \/ \E batch \in FlagBatches : hostQueues(batch)
    \/ srcClock + fftSize <= ControlClock /\ processBlock(fftSize)
    \/ processBlockStoresMode
    \/ processBlockLoadsChannelId
    \/ processBlockStoresChannelId
    \/ processBlockLoadsFlag
    \/ processBlockStoresFlag
    \/ processBlockChecksChannelStrip
    \/ processBlockSends
    \/ processBlockStages
    \/ processBlockChecksMasterBrain
    \/ processBlockReceives

SpecFlags == InitControl /\ [][NextFlags]_vars

\* C11: slot i of the registry has channelId i in every reachable state,
\* whatever sequence of setChannelId, setPluginMode, processBlock, reset and
\* state restores led there.
C11_ChannelIdFixed == \A i \in Slots : channels[i].channelId = i

\* setChannelId (3) has been called: the configured id is 3 and slot 0 says
\* its channelId is 3, as slot 3 does.
C11_Witness ==
    /\ cachedChannelId = 3
    /\ channels[0].channelId = 3
    /\ channels[3].channelId = 3

Measurements(slot) ==
    << slot.thd, slot.thdN, slot.level, slot.peakLevel, slot.harmonics >>

\* The processBlock under way is handed the next event of its batch in
\* MasterBrain mode, and the event is a valid message for slot i.
ReceivesFor(i) ==
    /\ audioThread.pc = "receive"
    /\ audioThread' # audioThread
    /\ cachedPluginMode = MasterBrain
    /\ ValidEvent(Head(audioThread.events))
    /\ Decoded(Head(audioThread.events)).msg.channelId = i

\* C12: the thd, thdN, level, peakLevel and harmonics of a slot change only
\* in a reset or when a MasterBrain block is handed a valid message for that
\* slot, and then to the values of the message: in ChannelStrip mode no slot
\* changes whatever telemetry the block is handed, and in MasterBrain mode
\* the instance's own analysis result is never written.
C12_MeasurementsFrame ==
    [][\A i \in Slots :
          Measurements(channels'[i]) # Measurements(channels[i]) =>
              \/ ResetStep
              \/ /\ ReceivesFor(i)
                 /\ Measurements(channels'[i]) =
                        Measurements(Written(channels[i],
                                             Decoded(Head(audioThread.events)).msg))]_vars

\* A MasterBrain block has run an analysis on a full ring while draining a
\* batch for slot 1: slot 1 holds the message, every other slot holds nothing.
C12_Witness ==
    /\ cachedPluginMode = MasterBrain
    /\ analyzeArgs # <<>>
    /\ lastAnalysis.level # F32Zero
    /\ lastBatch = << "Slot1A", "Id250" >>
    /\ Measurements(channels[1]) = Measurements(Written(channels[1], PayloadA))
    /\ \A i \in Slots \ {1} : ZeroMeasurements(channels[i])

\* A ChannelStrip block has run an analysis with telemetry for slot 1 in its
\* MIDI buffer: every slot holds nothing.
C12_WitnessStrip ==
    /\ cachedPluginMode = ChannelStrip
    /\ analyzeArgs # <<>>
    /\ lastAnalysis.level # F32Zero
    /\ lastBatch = << "Slot1A", "Id250" >>
    /\ \A i \in Slots : ZeroMeasurements(channels[i])

Flags(slot) == << slot.muted, slot.soloed >>

\* The flags the parameters hold, which the mute and solo buttons and a state
\* restore set.
ParameterFlags(st, i) == << st.muted[i], st.soloed[i] >>

\* A user toggle: a click on the mute or the solo button of a channel card.
UserToggle == \E i \in Slots : toggleMuted(i) \/ toggleSoloed(i)

\* The step is processBlock's store of a flag in syncCachedParametersFromState:
\* that flag, and nothing else of the registry, gets what the audio thread
\* loaded.
ProcessBlockStoresLoaded ==
    /\ audioThread.pc = "storeFlag"
    /\ audioThread' # audioThread
    /\ channels' = storeFlag(channels, SyncedFlags[audioThread.flag],
                             audioThread.loaded[1])

\* The step is setStateInformation's store of a flag in
\* syncCachedParametersFromState: that flag, and nothing else of the
\* registry, gets the value of its parameter.
RestoreStoresParameter ==
    /\ messageThread.pc = "syncFlag"
    /\ messageThread' # messageThread
    /\ channels' = storeFlag(channels, SyncedFlags[messageThread.flag],
                             loadFlag(state, SyncedFlags[messageThread.flag]))

\* What processBlock loads for a flag is the value of the flag's parameter at
\* the load.
LoadsParameter ==
    (audioThread.pc = "loadFlag" /\ audioThread' # audioThread) =>
        audioThread'.loaded = << loadFlag(state, SyncedFlags[audioThread.flag]) >>

\* The step is a reset, a step of setPluginMode, a user toggle, the host
\* queueing telemetry, or a step of processBlock other than the store of a
\* flag: the taking of the samples with the analysis, a load, the stores of
\* the mode and the channel id, the tests of the mode, the sending and the
\* staging of telemetry, the receiving of an event.
NoFlagStore ==
    \/ ResetStep
    \/ \E mode \in PluginModes : setPluginMode(mode)
    \/ setPluginModeStores
    \/ UserToggle
    \/ inFlight' # inFlight
    \/ audioThread' # audioThread /\ audioThread.pc # "storeFlag"

C13_WitnessRestored ==
    /\ srcClock = 0
    /\ audioThread.pc = "idle" /\ messageThread.pc = "idle"
    /\ state.channelId = 3
    /\ channels[1].muted

\* The last slot was soloed by its button and the block stored the flag.
C13_WitnessLastSlot ==
    /\ audioThread.pc = "idle"
    /\ srcClock = fftSize
    /\ state.soloed[ChannelCount - 1]
    /\ channels[ChannelCount - 1].soloed

\* The muted slot 1 has been through a MasterBrain block that wrote telemetry
\* into it and ran an analysis.
C13_WitnessTelemetry ==
    /\ cachedPluginMode = MasterBrain
    /\ lastBatch # <<>>
    /\ analyzeArgs # <<>>
    /\ channels[1].muted
    /\ ~ZeroMeasurements(channels[1])

\* The restored state's mute of slot 1 was stored, the user clicked it off,
\* and the block stored the flag: the slot is not muted any more.
C13_WitnessUnmuted ==
    /\ audioThread.pc = "idle"
    /\ srcClock = fftSize
    /\ state.channelId = 3
    /\ ~state.muted[1]
    /\ ~channels[1].muted

\* C14: setPluginMode, in either direction, leaves every field of every slot
\* of the registry as it was.
C14_ModeSwitchKeepsRegistry ==
    [][((\E mode \in PluginModes : setPluginMode(mode)) \/ setPluginModeStores)
           => channels' = channels]_vars

\* The registry was written in MasterBrain mode and the mode then set to
\* ChannelStrip: slot 1 still holds the message.
C14_Witness ==
    /\ state.pluginMode = ChannelStrip
    /\ cachedPluginMode = ChannelStrip
    /\ Measurements(channels[1]) = Measurements(Written(channels[1], PayloadA))

\* C26: no field of a registry slot is written outside processBlock:
\* whenever setStateInformation, setChannelId or setPluginMode, called from
\* another context in any order with processBlock, has run, the registry is
\* as it was; the registry changes only in processBlock (and in the reset
\* of prepareToPlay, before the audio runs).
C26_OnlyProcessBlockWrites ==
    [][channels' # channels =>
          \/ ResetStep
          \/ audioThread' # audioThread]_vars

\* Before any processBlock (the plugin is not prepared yet) the mute button
\* of slot 1 was clicked and setStateInformation called: slot 1 of the
\* registry is muted.
C26_Witness ==
    /\ ~prepared
    /\ srcClock = 0
    /\ channels[1].muted

\* Before any processBlock setChannelId (3) was called: slot 0 of the
\* registry has channelId 3.
C26_WitnessChannelId ==
    /\ ~prepared
    /\ srcClock = 0
    /\ channels[0].channelId = 3

\* What does hold: setPluginMode writes no field of the registry, and the
\* other two write nothing but the flags and slot 0's channelId.
C26_WritesOutsideProcessBlock ==
    [][audioThread' = audioThread /\ ~ResetStep =>
          \A i \in Slots :
              /\ Measurements(channels'[i]) = Measurements(channels[i])
              /\ i # 0 => channels'[i].channelId = channels[i].channelId]_vars

(***************************************************************************)
(* What calls that overlap leave behind, all calls having returned.        *)
(***************************************************************************)
\* Under SpecMaster: a processBlock that read MasterBrain at its first test
\* of the mode and ChannelStrip at its second, setPluginMode running in
\* between, has taken neither branch: the inbound event is still in the
\* host's buffer and the registry has not got it.
BlockTookNoBranch ==
    /\ audioThread.pc = "idle" /\ messageThread.pc = "idle"
    /\ lastBatch = << "Slot1A" >>
    /\ midiMessages = Events(<< "Slot1A" >>)
    /\ cachedPluginMode = ChannelStrip
    /\ channels[1].thd = FloatZero

\* Under SpecMaster: processBlock has stored into cachedPluginMode the mode
\* it loaded before setPluginMode changed the parameter and the cache.
CachedModeStale ==
    /\ audioThread.pc = "idle" /\ messageThread.pc = "idle"
    /\ state.pluginMode = ChannelStrip
    /\ cachedPluginMode = MasterBrain

\* Under SpecControl: processBlock has stored into cachedChannelId the id it
\* loaded before setChannelId (3) changed the parameter, the cache and slot 0.
CachedChannelIdStale ==
    /\ audioThread.pc = "idle" /\ messageThread.pc = "idle"
    /\ state.channelId = 3
    /\ cachedChannelId = 0
    /\ channels[0].channelId = 3

\* Under SpecControl: processBlock has stored into slot 1's muted flag the
\* value it loaded before setStateInformation restored the parameters and
\* stored the restored flag.
MutedFlagStale ==
    /\ audioThread.pc = "idle" /\ messageThread.pc = "idle"
    /\ state.muted[1]
    /\ ~channels[1].muted
    /\ cachedPluginMode = MasterBrain
    /\ cachedChannelId = 3
    /\ channels[0].channelId = 0

(***************************************************************************)
(* Outbound telemetry, under Spec                                          *)
(***************************************************************************)
\* The telemetry message for an analysis result, a peak and a channel id.
ResultMessage(chId, analysis, peakLevel) ==
    [channelId |-> chId,
     thd       |-> BitsOf(analysis.thd),
     thdN      |-> BitsOf(analysis.thdN),
     level     |-> BitsOf(analysis.level),
     peakLevel |-> BitsOf(F32OfSample(peakLevel)),
     harmonics |-> [i \in 1 .. NumHarmonics |->
                       IF i <= Len(analysis.harmonics)
                       THEN F32(analysis.harmonics[i]) ELSE FloatZero]]

\* The peak of the block the processBlock under way was given; 0 for a block
\* of no samples.
PeakOfStep ==
    IF audioThread.numSamples > 0
    THEN PeakOfBlock(srcClock - audioThread.numSamples + 1, srcClock)
    ELSE 0

\* The step in which a processBlock returns.
ProcessBlockReturns == audioThread.pc # "idle" /\ audioThread' = AudioIdle

\* The return of a processBlock in ChannelStrip mode: the getPluginMode() of
\* processBlock and the one of sendTHDDataToMaster returned ChannelStrip.
StripBlockReturns == audioThread.pc = "stage" /\ audioThread' = AudioIdle

\* The return of a processBlock in ChannelStrip mode on a block of at least
\* one sample.
StripBlock == StripBlockReturns /\ audioThread.numSamples > 0

\* C15: in ChannelStrip mode a block in which analyze ran emits exactly one
\* message, carrying the thd, thdN, level and harmonics analyze returned, the
\* block's peak and the configured channel id, which is in 0..7; a block in
\* which analyze did not run, the ring not being full, emits no message.
C15_TelemetryAfterAnalysis ==
    [][StripBlock =>
          IF analyzeArgs # <<>>
          THEN /\ cachedChannelId \in Slots
               /\ midiMessages' =
                      << toMidiBytes(ResultMessage(cachedChannelId, lastAnalysis,
                                                   PeakOfStep)) >>
          ELSE midiMessages' = <<>>]_vars

\* The first block of the session, one sample long, has been processed:
\* analyze has not run and a message is in the host's buffer.
C15_Witness ==
    /\ audioThread.pc = "idle"
    /\ srcClock = 1
    /\ ~fifoFilled
    /\ analyzeArgs = <<>>
    /\ Len(midiMessages) = 1

\* C16: after every processBlock call midiOutputBuffer is empty; a
\* ChannelStrip block, whatever its length, zero included, leaves in the
\* host's buffer exactly the message it staged, once; a MasterBrain block
\* stages nothing and leaves the host's buffer empty.
C16_StagedFlushedOnce ==
    /\ [](midiOutputBuffer = <<>>)
    /\ [][ProcessBlockReturns =>
             IF StripBlockReturns
             THEN midiMessages' =
                      << toMidiBytes(ResultMessage(cachedChannelId, lastAnalysis,
                                                   PeakOfStep)) >>
             ELSE midiMessages' = <<>>]_vars

\* C16 for the blocks of at least one sample: the staged message reaches the
\* host's buffer once and the staging buffer is left empty.
C16_FlushedWhenSamples ==
    /\ [](midiOutputBuffer = <<>>)
    /\ [][(ProcessBlockReturns /\ audioThread.numSamples > 0) =>
             IF StripBlockReturns
             THEN midiMessages' =
                      << toMidiBytes(ResultMessage(cachedChannelId, lastAnalysis,
                                                   PeakOfStep)) >>
             ELSE midiMessages' = <<>>]_vars

(***************************************************************************)
(* The analyzer on its own: analyze is called once on a buffer, a sample   *)
(* rate and the spectrum the transform gives for the buffer.               *)
(***************************************************************************)
\* Sample rates: negative, zero, and positive ones that put minBin past the
\* spectrum (40), inside it (80, 160), at bin 0 (200), and maxBin inside the
\* spectrum (8000).
AnalyzeRates == {-160, -80, 0, 40, 80, 160, 200, 8000}

\* The analyzer's fftSize: the plugin's, and one at which a fundamental at
\* bin 1 has its harmonics H2..H8 inside the spectrum and bins HarmonicRegion
\* and more above H8, which the noise estimate reads.
WideSize == 40

\* The length of a buffer of threshold samples whose float level comes out
\* above the threshold: the sum of 34 squares is rounded up.
TieLength == 34

AnalyzeSizes == {fftSize, WideSize}

\* Buffers: silence, a signal that is 0 but for its first and last sample,
\* where the window is 0, one threshold sample in silence, signals whose
\* samples are all the threshold, of fftSize and of TieLength samples, a
\* signal whose level is between the threshold and twice the threshold, and
\* the host's ramp one sample short of fftSize, of fftSize samples and one
\* sample longer.
AnalyzeBuffers(size) ==
    {Zeros(size), [i \in 1 .. size |-> LevelThreshold],
     [i \in 1 .. TieLength |-> LevelThreshold],
     [i \in 1 .. size |-> IF i = 2 THEN LevelThreshold ELSE 0],
     [i \in 1 .. size |-> IF i = 1 \/ i = size THEN 5 ELSE 0],
     [i \in 1 .. size |-> IF i % 2 = 1 THEN 1 ELSE 2]} \cup
    {[i \in 1 .. n |-> HostSample(i)] : n \in {size - 1, size, size + 1}}

MagnitudeValues == {0, 1, 3}

\* The bins of the wide spectrum that hold a magnitude: bins 1 and 2, bin 5,
\* where the search starts at the sample rate 160, and the last two bins.
WideBins == {1, 2, 5, (WideSize \div 2) - 2, (WideSize \div 2) - 1}

\* The spectra of the buffer: a buffer the window turns into silence has the
\* zero spectrum, any other buffer any magnitudes, in the wide spectrum at
\* the bins of WideBins.
AnalyzeSpectra(size, buffer) ==
    IF WindowedIsZero(size, buffer) THEN {[i \in BinsOf(size) |-> 0]}
    ELSE IF size < WideSize THEN [BinsOf(size) -> MagnitudeValues]
    ELSE {[i \in BinsOf(size) |-> IF i \in WideBins THEN g[i] ELSE 0] :
             g \in [WideBins -> MagnitudeValues]}

\* static_cast<int> of a float too large for an int, which the language
\* leaves undefined: the builds give the least int (x86-64) or the greatest
\* (arm64).
UndefinedCasts == {-2147483647 - 1, 2147483647}

\* minBin or maxBin (lines 74-75): static_cast<int> (a / sampleRate); for
\* sampleRate 0 the quotient is infinite.
CastBins(a, rate) == IF rate = 0 THEN UndefinedCasts ELSE {TruncDiv(a, rate)}

InitAnalyze ==
    /\ InitPlugin /\ totalNumInputChannels = 1
    /\ InitCodecIdle /\ InitStandaloneIdle
    /\ anSize \in AnalyzeSizes
    /\ anBuffer \in AnalyzeBuffers(anSize)
    /\ anRate \in AnalyzeRates
    /\ anMagnitude \in AnalyzeSpectra(anSize, anBuffer)
    /\ anResult = DefaultAnalysisResult
    /\ anRaised = FALSE
    /\ anScan = [maxMag |-> 0, fundamentalBin |-> 0]
    /\ anPhase = "input"

\* analyze (anBuffer, Len(anBuffer)) of an FFTAnalyzer whose fftSize is anSize
\* and whose sampleRate is anRate.  The fundamental
\* search reads magnitude[minBin] first; with minBin below 0 that is a read
\* outside the vector and the call does not return.
Analyze ==
    /\ anPhase = "input"
    /\ \E minBin \in CastBins(20 * anSize, anRate),
          maxBin \in CastBins(2000 * anSize, anRate) :
          LET outside == /\ Len(anBuffer) >= anSize
                         /\ minBin < 0 /\ minBin <= maxBin
          IN  /\ anRaised' = outside
              /\ anResult' = IF outside THEN anResult
                             ELSE analyzeBins(anBuffer, Len(anBuffer), anRate,
                                              anSize, anMagnitude, minBin, maxBin)
              /\ anScan' = IF outside \/ Len(anBuffer) < anSize THEN anScan
                           ELSE FundamentalScan(anMagnitude, anSize, minBin, maxBin, 0, 0)
    /\ anPhase' = "done"
    /\ UNCHANGED << pluginVars, codecVars, standaloneVars, anBuffer, anRate, anSize,
                    anMagnitude >>

NextAnalyze == Analyze

SpecAnalyze == InitAnalyze /\ [][NextAnalyze]_vars

\* The result with every field zero and seven zero harmonics.
AllZeroResult ==
    [fundamentalFrequency |-> 0, thd |-> F32Zero, thdN |-> F32Zero,
     level |-> F32Zero, harmonics |-> Zeros(NumHarmonics), noiseFloor |-> F32Zero]

\* C17: analyze called with sampleRate <= 0 returns, without an error, the
\* result with fundamental 0, thd 0, thdN 0, level 0, seven zero harmonics
\* and noiseFloor 0, whatever the buffer.
C17_NonPositiveRateGivesZero ==
    (anPhase = "done" /\ anRate <= 0) =>
        ~anRaised /\ anResult = AllZeroResult

\* analyze has returned for a negative sample rate and a buffer of anSize
\* samples that is not silence: the result's level is not 0.
C17_Witness ==
    /\ anPhase = "done"
    /\ anRate < 0
    /\ Len(anBuffer) = anSize
    /\ ~anRaised
    /\ anResult.level # F32Zero

\* The fundamental bin as the claim defines it: the lowest bin of greatest
\* magnitude among the bins from floor(20 N / sampleRate) to
\* floor(2000 N / sampleRate), both brought into 1 .. N/2 - 1.
ClampedFundamentalBin(magnitude, rate) ==
    LET lo == jlimit(1, (anSize \div 2) - 1, (20 * anSize) \div rate)
        hi == jlimit(1, (anSize \div 2) - 1, (2000 * anSize) \div rate)
        top == CHOOSE i \in lo .. hi : \A j \in lo .. hi : magnitude[j] <= magnitude[i]
    IN  CHOOSE i \in lo .. hi :
            /\ magnitude[i] = magnitude[top]
            /\ \A j \in lo .. hi : magnitude[j] = magnitude[top] => i <= j

\* C18: for a positive sample rate and any spectrum, the fundamental bin
\* analyze selects is the lowest bin of greatest magnitude in the 20 Hz to
\* 2000 Hz range with both ends clamped into 1 .. N/2 - 1; bin 0 and the bins
\* from N/2 on are never selected.
C18_FundamentalBin ==
    (anPhase = "done" /\ anRate > 0 /\ Len(anBuffer) >= anSize) =>
        /\ ~anRaised
        /\ anResult.fundamentalFrequency =
               ClampedFundamentalBin(anMagnitude, anRate) * anRate

\* analyze has returned for a sample rate that puts minBin at 0 and a
\* spectrum whose greatest magnitude is at bin 0: the fundamental is 0, not
\* bin 1's frequency.
C18_Witness ==
    /\ anPhase = "done"
    /\ anRate = 200
    /\ Len(anBuffer) = anSize
    /\ anMagnitude[0] = 3 /\ anMagnitude[1] = 1
    /\ anResult.fundamentalFrequency = 0

\* C18 where the code and the claim agree: minBin is inside 1 .. N/2 - 1 and
\* some bin of the range holds a magnitude above 0.
C18_AgreesFromBinOne ==
    (/\ anPhase = "done" /\ anRate > 0 /\ Len(anBuffer) >= anSize
     /\ (20 * anSize) \div anRate \in 1 .. (anSize \div 2) - 1
     /\ \E i \in BinsOf(anSize) : /\ i >= (20 * anSize) \div anRate
                        /\ i <= (2000 * anSize) \div anRate
                        /\ anMagnitude[i] > 0) =>
        /\ ~anRaised
        /\ anResult.fundamentalFrequency =
               ClampedFundamentalBin(anMagnitude, anRate) * anRate

\* The fundamental bin of the result returned.
ResultFundamentalBin ==
    IF anRate > 0 THEN anResult.fundamentalFrequency \div anRate ELSE 0

\* The bin of harmonic h of the result returned.
ResultHarmonicBin(h) == h * ResultFundamentalBin

\* The harmonics of the result whose bin is inside 1 .. N/2 - 1.
HarmonicsInside ==
    {h \in 2 .. NumHarmonics + 1 : ResultHarmonicBin(h) \in 1 .. (anSize \div 2) - 1}

\* C19: every result analyze returns has exactly seven harmonic entries, in
\* the order H2..H8: the entry of a harmonic whose bin is inside 1 .. N/2 - 1
\* is that bin's magnitude when the full analysis ran, the entry of any other
\* harmonic is 0, and thd is computed from the entries inside alone.
C19_SevenHarmonics ==
    (anPhase = "done" /\ ~anRaised) =>
        /\ Len(anResult.harmonics) = NumHarmonics
        /\ \A h \in (2 .. NumHarmonics + 1) \ HarmonicsInside :
               anResult.harmonics[h - 1] = 0
        /\ IF /\ anResult.fundamentalFrequency > 0
              /\ F32Greater(levelOf(anBuffer, Len(anBuffer)), F32Threshold)
           THEN /\ \A h \in HarmonicsInside :
                       anResult.harmonics[h - 1] = anMagnitude[ResultHarmonicBin(h)]
                /\ anResult.thd =
                       PercentOf(rootOfSquares([k \in 1 .. NumHarmonics |->
                                     IF (k + 1) \in HarmonicsInside
                                     THEN anMagnitude[ResultHarmonicBin(k + 1)] ELSE 0]),
                                 F32Zero, anMagnitude[ResultFundamentalBin])
           ELSE anResult.harmonics = Zeros(NumHarmonics)

\* The full analysis has run with the fundamental at bin 1: H2 and H3 are the
\* magnitudes of bins 2 and 3, H4..H8, whose bins are past the spectrum, are 0
\* although bin 0, where bin 4 would fold to, holds a magnitude.
C19_Witness ==
    /\ anPhase = "done" /\ ~anRaised
    /\ anRate = 160
    /\ anMagnitude = [i \in BinsOf(anSize) |-> IF i <= 1 THEN 3 ELSE 1]
    /\ anResult.fundamentalFrequency = 160
    /\ anResult.harmonics = << 1, 1, 0, 0, 0, 0, 0 >>

\* The full analysis has run on the wide spectrum with the fundamental at
\* bin 1: the bins of H2..H8 are all inside, the entries are their magnitudes.
C19_WitnessWide ==
    /\ anPhase = "done" /\ ~anRaised
    /\ anSize = WideSize
    /\ anRate = 8000
    /\ anResult.fundamentalFrequency = 8000
    /\ HarmonicsInside = 2 .. NumHarmonics + 1
    /\ anResult.harmonics = << 1, 0, 0, 3, 0, 0, 0 >>
    /\ F32Greater(anResult.thd, F32OfInt(100))

\* The short window has been analyzed: seven zero harmonics.
C19_WitnessShort ==
    /\ anPhase = "done" /\ ~anRaised
    /\ Len(anBuffer) < anSize
    /\ anRate > 0
    /\ anResult.harmonics = Zeros(NumHarmonics)

\* C20: the thd and thdN of every result analyze returns are in 0 .. 100,
\* also when the harmonic bins hold more energy than the fundamental bin.
\* Neither is ever below 0: a root divided by a magnitude above 0.
C20_PercentRange ==
    (anPhase = "done" /\ ~anRaised) =>
        /\ ~F32Greater(anResult.thd, F32OfInt(100))
        /\ ~F32Greater(anResult.thdN, F32OfInt(100))

\* The fundamental and its second and third harmonic have the same
\* magnitude: thd is above 100.
C20_Witness ==
    /\ anPhase = "done" /\ ~anRaised
    /\ anRate = 160
    /\ anMagnitude = [i \in BinsOf(anSize) |-> IF i = 0 THEN 0 ELSE 3]
    /\ F32Greater(anResult.thd, F32OfInt(100))

RECURSIVE IsqrtBetween(_, _, _)
\* The greatest r of lo .. hi with r * r <= n, found by halving the range.
IsqrtBetween(n, lo, hi) ==
    IF lo >= hi THEN lo
    ELSE LET mid == (lo + hi + 1) \div 2
         IN  IF mid * mid <= n THEN IsqrtBetween(n, mid, hi)
             ELSE IsqrtBetween(n, lo, mid - 1)

\* floor(sqrt(n)), 0 <= n < 2^31
Isqrt(n) == IsqrtBetween(n, 0, IF n < 46340 THEN n ELSE 46340)

RECURSIVE ExactSumSquares(_)
\* The sum of the squares of the samples, in squared units, without rounding.
ExactSumSquares(xs) ==
    IF xs = <<>> THEN 0 ELSE Head(xs) * Head(xs) + ExactSumSquares(Tail(xs))

\* The float level is the root of the mean square of the buffer's samples:
\* it is 0 for silence, and otherwise within 1/64 of a unit of 0.0001f of
\* the root of the exact mean square, r being that root in 64ths of a unit
\* with its fraction dropped.
LevelIsRms(level, buffer) ==
    LET sum == ExactSumSquares(buffer)
        r   == Isqrt((64 * 64 * sum) \div Len(buffer))
    IN  IF sum = 0 THEN level = F32Zero
        ELSE /\ F32Greater(level, F32Div(F32OfSample(r - 1), F32OfInt(64)))
             /\ F32Greater(F32Div(F32OfSample(r + 2), F32OfInt(64)), level)

\* C21: analyze returns, and does not fail, when the signal is insufficient:
\* if the fundamental frequency it returns is not above 0, or the level it
\* returns is not above 0.0001f, or the fundamental bin's magnitude is not
\* above 0 (silence among them), then thd, thdN and noiseFloor are 0 and the
\* seven harmonics are 0, the fundamental being that of the bin found and
\* the level the root of the mean square of the samples; a buffer shorter
\* than anSize gives the result with every field 0.
C21_InsufficientSignal ==
    /\ (anPhase = "done" /\ anRate # 0) => ~anRaised
    /\ (anPhase = "done" /\ ~anRaised) =>
          IF Len(anBuffer) < anSize THEN anResult = AllZeroResult
          ELSE /\ LevelIsRms(anResult.level, anBuffer)
               /\ anResult.fundamentalFrequency = anScan.fundamentalBin * anRate
               /\ (\/ anResult.fundamentalFrequency <= 0
                   \/ ~F32Greater(anResult.level, F32Threshold)
                   \/ anMagnitude[anScan.fundamentalBin] <= 0) =>
                      /\ anResult.thd = F32Zero /\ anResult.thdN = F32Zero
                      /\ anResult.noiseFloor = F32Zero
                      /\ anResult.harmonics = Zeros(NumHarmonics)

\* fftSize samples of 0.0001f with a peak at bin 1 and a second harmonic
\* have been analyzed: the level returned is not 0 and not above 0.0001f,
\* the fundamental is bin 1's, thd is 0.
C21_Witness ==
    /\ anPhase = "done" /\ ~anRaised
    /\ anRate = 160
    /\ anSize = fftSize
    /\ anBuffer = [i \in 1 .. fftSize |-> LevelThreshold]
    /\ anResult.level # F32Zero
    /\ ~F32Greater(anResult.level, F32Threshold)
    /\ anMagnitude[1] = 3 /\ anMagnitude[2] = 1
    /\ anResult.fundamentalFrequency = 160
    /\ anResult.thd = F32Zero
    /\ anResult.harmonics = Zeros(NumHarmonics)

\* TieLength samples of 0.0001f with the same spectrum have been analyzed:
\* the level returned is the next float above 0.0001f, the harmonic analysis
\* has run and thd is 33.33 percent.
ThresholdLevelPasses ==
    /\ anPhase = "done" /\ ~anRaised
    /\ anRate = 160
    /\ anSize = fftSize
    /\ anBuffer = [i \in 1 .. TieLength |-> LevelThreshold]
    /\ anMagnitude = [i \in BinsOf(anSize) |-> IF i = 1 THEN 3 ELSE IF i = 2 THEN 1 ELSE 0]
    /\ anResult.level = [F32Threshold EXCEPT !.m = @ + 1]
    /\ F32Floor(anResult.thd) = 33
    /\ anResult.harmonics = << 1, 0, 0, 0, 0, 0, 0 >>

\* The noise estimate has run: the fundamental is at the last bin of the
\* wide spectrum, its harmonics are past the spectrum, and a bin
\* HarmonicRegion and more below it holds a magnitude; thdN is above thd.
NoiseEstimated ==
    /\ anPhase = "done" /\ ~anRaised
    /\ anSize = WideSize
    /\ anRate = 160
    /\ anScan = [maxMag |-> 3, fundamentalBin |-> (WideSize \div 2) - 1]
    /\ anMagnitude[5] = 1
    /\ ~F32Greater(anResult.noiseFloor, F32OfInt(1))
    /\ anResult.thd = F32Zero
    /\ F32Floor(anResult.thdN) = 14

\* The noise estimate has run with harmonics inside the spectrum: the
\* fundamental is at bin 1 with magnitude 3, H2 has magnitude 1, and the two
\* bins HarmonicRegion above H8 have magnitudes 3 and 1: the noise level is
\* the root of 5, thd is 33 and thdN 107.
HarmonicsAndNoise ==
    /\ anPhase = "done" /\ ~anRaised
    /\ anSize = WideSize
    /\ anRate = 8000
    /\ anScan = [maxMag |-> 3, fundamentalBin |-> 1]
    /\ anResult.harmonics = << 1, 0, 0, 0, 0, 0, 0 >>
    /\ anMagnitude[(WideSize \div 2) - 2] = 3
    /\ anMagnitude[(WideSize \div 2) - 1] = 1
    /\ F32Floor(anResult.noiseFloor) = 2
    /\ F32Floor(anResult.thd) = 33
    /\ F32Floor(anResult.thdN) = 107

\* One threshold sample in silence has been analyzed with a spectrum that
\* has noise bins: noiseFloor and thdN are 0, the noise estimate has not
\* run.
C21_WitnessNoise ==
    /\ anPhase = "done" /\ ~anRaised
    /\ anSize = WideSize
    /\ anRate = 160
    /\ anScan = [maxMag |-> 3, fundamentalBin |-> (WideSize \div 2) - 1]
    /\ anMagnitude[5] = 1
    /\ ExactSumSquares(anBuffer) = LevelThreshold * LevelThreshold
    /\ anResult.level # F32Zero
    /\ anResult.noiseFloor = F32Zero
    /\ anResult.thdN = F32Zero

\* Silence has been analyzed: every field of the result is 0.
C21_WitnessSilence ==
    /\ anPhase = "done" /\ ~anRaised
    /\ anRate = 160
    /\ anBuffer = Zeros(anSize)
    /\ anResult = AllZeroResult

\* C27: for a positive sample rate and any spectrum, whenever analyze
\* computes thd and thdN as ratios to maxMag, the fundamental bin it selected
\* is at least 1 and maxMag is above 0: the divisor is never 0.
C27_NoDivisionByZero ==
    (/\ anPhase = "done" /\ anRate > 0 /\ Len(anBuffer) >= anSize
     /\ sufficientSignal(anResult.fundamentalFrequency,
                         levelOf(anBuffer, Len(anBuffer)))) =>
        /\ ~anRaised
        /\ anScan.fundamentalBin >= 1
        /\ anScan.maxMag > 0
        /\ anScan.maxMag = anMagnitude[anScan.fundamentalBin]
        /\ anResult.thd # FloatInfinity /\ anResult.thd # FloatNaN
        /\ anResult.thdN # FloatInfinity /\ anResult.thdN # FloatNaN

\* The ratios have been computed for a sample rate that has the search start
\* at bin 0, with bin 0 holding a magnitude: the fundamental is bin 2.
C27_Witness ==
    /\ anPhase = "done" /\ ~anRaised
    /\ anRate = 200
    /\ anMagnitude = [i \in BinsOf(anSize) |-> IF i = 2 THEN 3 ELSE 1]
    /\ anScan = [maxMag |-> 3, fundamentalBin |-> 2]
    /\ F32Greater(anResult.level, F32Threshold)


(***************************************************************************)
(* SpecAggregate: computeMasterTHD on its own, over channel lists of up to *)
(* MaxChannels channels, and the user muting the channel it named.         *)
(***************************************************************************)
MaxChannels == 3

ChannelNames ==
    << "KICK", "SNARE", "BASS", "GTR L", "GTR R", "KEYS", "VOX", "FX BUS" >>

\* The measurements and flags a channel of the list can carry.
ChannelKinds ==
    { [thd |-> 0,     thdN |-> 0,     muted |-> FALSE, soloed |-> FALSE],
      [thd |-> 500,   thdN |-> 900,   muted |-> FALSE, soloed |-> FALSE],
      [thd |-> 500,   thdN |-> 900,   muted |-> TRUE,  soloed |-> FALSE],
      [thd |-> 3000,  thdN |-> 4000,  muted |-> FALSE, soloed |-> FALSE],
      [thd |-> 3000,  thdN |-> 2000,  muted |-> FALSE, soloed |-> TRUE],
      [thd |-> 12000, thdN |-> 12000, muted |-> FALSE, soloed |-> FALSE],
      [thd |-> 12000, thdN |-> 15000, muted |-> TRUE,  soloed |-> TRUE] }

\* The ids of the initial channels, by slot.
ChannelIds == << "ch1", "ch2", "ch3", "ch4", "ch5", "ch6", "ch7", "ch8" >>

\* The names and ids of a list after addChannel, removeChannel of another
\* channel and addChannel again, each time on eight channels: both new
\* channels are named `CH ${channels.length + 1}`, and the ids are
\* `ch${Date.now()}` of two different moments.
AddedNames ==
    << "KICK", "CH 9", "CH 9", "SNARE", "BASS", "GTR L", "GTR R", "KEYS" >>

AddedIds ==
    << "ch1", "ch1017", "ch1034", "ch2", "ch3", "ch4", "ch5", "ch6" >>

ChannelNamings ==
    { [names |-> ChannelNames, ids |-> ChannelIds],
      [names |-> AddedNames, ids |-> AddedIds] }

ChannelLists ==
    { [i \in 1 .. Len(kinds) |->
          [id |-> naming.ids[i], name |-> naming.names[i],
           thd |-> kinds[i].thd, thdN |-> kinds[i].thdN,
           muted |-> kinds[i].muted, soloed |-> kinds[i].soloed]] :
      kinds \in SeqsUpTo(ChannelKinds, MaxChannels),
      naming \in ChannelNamings }

\* handleChannelChange (id, updates) with updates = { muted }:
\* prev.map((ch) => (ch.id === id ? { ...ch, ...updates } : ch)).
handleChannelChange(prev, id, muted) ==
    [i \in 1 .. Len(prev) |->
        IF prev[i].id = id THEN [prev[i] EXCEPT !.muted = muted] ELSE prev[i]]

InitAggregate ==
    /\ InitPlugin /\ totalNumInputChannels = 1
    /\ InitCodecIdle /\ InitAnalyzerIdle /\ InitSignalIdle /\ InitSearchIdle
    /\ InitHookIdle /\ InitSessionIdle
    /\ agChannels \in ChannelLists
    /\ agResult = [thd |-> 0, thdN |-> 0, worstChannel |-> Null]
    /\ agLastWorst = Null
    /\ agPhase = "input"

\* computeMasterTHD (channels)
Aggregate ==
    /\ agPhase = "input"
    /\ agResult' = computeMasterTHD(agChannels)
    /\ agPhase' = "done"
    /\ UNCHANGED << pluginVars, codecVars, analyzerVars, fftAnalyzerRef,
                    searchVars, hookVars, sessionVars, agChannels, agLastWorst >>

\* The user clicks the mute button of a strip that is not muted and carries
\* the name the aggregation gave: onChange (channel.id, { muted:
\* !channel.muted }) of that strip.  The list is aggregated again on the next
\* call.
MuteWorst ==
    /\ agPhase = "done"
    /\ agResult.worstChannel # Null
    /\ \E i \in 1 .. Len(agChannels) :
          /\ agChannels[i].name = agResult.worstChannel
          /\ ~agChannels[i].muted
          /\ agChannels' = handleChannelChange(agChannels, agChannels[i].id,
                                               ~agChannels[i].muted)
          /\ agLastWorst' = agChannels[i].id
    /\ agPhase' = "input"
    /\ UNCHANGED << pluginVars, codecVars, analyzerVars, fftAnalyzerRef,
                    searchVars, hookVars, sessionVars, agResult >>

NextAggregate == Aggregate \/ MuteWorst

SpecAggregate == InitAggregate /\ [][NextAggregate]_vars


NonMutedSlots == { i \in 1 .. Len(agChannels) : ~agChannels[i].muted }

\* The list with every solo flag inverted.
SoloInverted ==
    [i \in 1 .. Len(agChannels) |->
        [agChannels[i] EXCEPT !.soloed = ~agChannels[i].soloed]]

\* C22: the aggregation considers exactly the non-muted channels: the muted
\* channels can be removed from the list and the solo flags inverted without
\* changing the result, the channel named is a non-muted one, and when every
\* channel is muted or the list is empty the result is thd 0, thdN 0 and no
\* worst channel.
C22_NonMutedOnly ==
    agPhase = "done" =>
        /\ agResult = computeMasterTHD(SelectSeq(agChannels, NotMuted))
        /\ agResult = computeMasterTHD(SoloInverted)
        /\ NonMutedSlots = {} =>
               agResult = [thd |-> 0, thdN |-> 0, worstChannel |-> Null]
        /\ NonMutedSlots # {} =>
               agResult.worstChannel
                      \in { agChannels[i].name : i \in NonMutedSlots }

\* A muted channel with the largest thd of the list, a soloed and a plain
\* channel: the result comes from the last two.
C22_Witness ==
    /\ agPhase = "done"
    /\ Len(agChannels) = 3
    /\ agChannels[1].muted /\ agChannels[1].thd = 12000
    /\ ~agChannels[2].muted /\ agChannels[2].soloed
    /\ ~agChannels[3].muted /\ ~agChannels[3].soloed /\ agChannels[3].thd = 500
    /\ agResult.worstChannel = "SNARE"
    /\ agResult.thd = 2150

C22_WitnessAllMuted ==
    /\ agPhase = "done"
    /\ Len(agChannels) = 2
    /\ NonMutedSlots = {}
    /\ agResult = [thd |-> 0, thdN |-> 0, worstChannel |-> Null]

\* C23: the worst channel is the name of the non-muted channel with the
\* largest raw thd, the lowest slot winning a tie; after the user muted the
\* channel named, the result names the worst of the remaining channels.
C23_WorstChannel ==
    agPhase = "done" /\ NonMutedSlots # {} =>
        LET top == CHOOSE i \in NonMutedSlots :
                       \A j \in NonMutedSlots :
                           \/ agChannels[j].thd < agChannels[i].thd
                           \/ agChannels[j].thd = agChannels[i].thd /\ i <= j
        IN  /\ agResult.worstChannel = agChannels[top].name
            /\ agLastWorst # Null => agChannels[top].id # agLastWorst

\* Two non-muted channels tie behind a third; the third was named, the user
\* muted it, and the first of the two is named now.
C23_Witness ==
    /\ agPhase = "done"
    /\ Len(agChannels) = 3
    /\ agLastWorst = "ch1" /\ agChannels[1].muted
    /\ ~agChannels[2].muted /\ ~agChannels[3].muted
    /\ agChannels[2].thd = 3000 /\ agChannels[3].thd = 3000
    /\ agResult.worstChannel = "SNARE"

\* Two channels carry the name CH 9: the one with the larger thd was named,
\* the user muted it, the other is not muted and the name is given again.
SameNameRemains ==
    /\ agPhase = "done"
    /\ Len(agChannels) = 3
    /\ agChannels[2].name = "CH 9" /\ agChannels[3].name = "CH 9"
    /\ agLastWorst = "ch1017" /\ agChannels[2].muted /\ agChannels[2].thd = 3000
    /\ ~agChannels[3].muted /\ agChannels[3].thd = 500
    /\ ~agChannels[1].muted /\ agChannels[1].thd = 0
    /\ agResult.worstChannel = "CH 9"

\* C24: the aggregate thd is the quadratic mean of the non-muted channels'
\* thd, and the aggregate thdN that of their thdN, with nothing clamped.
C24_QuadraticMean ==
    agPhase = "done" /\ NonMutedSlots # {} =>
        LET active == SelectSeq(agChannels, NotMuted)
        IN  /\ agResult.thd
                   = MathSqrt(sumSquared(active, "thd") \div Len(active))
            /\ agResult.thdN
                   = MathSqrt(sumSquared(active, "thdN") \div Len(active))

\* Every non-muted channel at 12 percent, and the aggregate at 10.
C24_WitnessClamped ==
    /\ agPhase = "done"
    /\ Len(agChannels) = 2
    /\ \A i \in 1 .. 2 : ~agChannels[i].muted /\ agChannels[i].thd = 12000
    /\ agResult.thd = AggregateCeiling

\* Every non-muted channel at 0 percent, and the aggregate at 0.001.
C24_WitnessFloor ==
    /\ agPhase = "done"
    /\ Len(agChannels) = 2
    /\ \A i \in 1 .. 2 : ~agChannels[i].muted /\ agChannels[i].thd = 0
    /\ agResult.thd = AggregateFloor


(***************************************************************************)
(* SpecSignal: the FFTAnalyzer's methods called in any order, with at most *)
(* MaxSignals calls of generateTestSignal.                                 *)
(***************************************************************************)
MaxSignals == 3

InitSignal ==
    /\ InitPlugin /\ totalNumInputChannels = 1
    /\ InitCodecIdle /\ InitAnalyzerIdle /\ InitAggregateIdle /\ InitSearchIdle
    /\ InitHookIdle /\ InitSessionIdle
    /\ fftAnalyzerRef = NewFFTAnalyzer

generateTestSignal(channelId) ==
    /\ Len(fftAnalyzerRef.nodes) < 2 * MaxSignals
    /\ fftAnalyzerRef' = generateTestSignalOn(fftAnalyzerRef, channelId)
    /\ UNCHANGED << pluginVars, codecVars, analyzerVars, aggregateVars, searchVars,
                    hookVars, sessionVars >>

stopSignal(channelId) ==
    /\ fftAnalyzerRef' = stopSignalOn(fftAnalyzerRef, channelId)
    /\ UNCHANGED << pluginVars, codecVars, analyzerVars, aggregateVars, searchVars,
                    hookVars, sessionVars >>

dispose ==
    /\ fftAnalyzerRef' = disposeOn(fftAnalyzerRef)
    /\ UNCHANGED << pluginVars, codecVars, analyzerVars, aggregateVars, searchVars,
                    hookVars, sessionVars >>

NextSignal ==
    \/ \E channelId \in SignalChannels : generateTestSignal(channelId)
    \/ \E channelId \in SignalChannels : stopSignal(channelId)
    \/ dispose

SpecSignal == InitSignal /\ [][NextSignal]_vars

\* The oscillator nodes started and not stopped.
RunningNodes ==
    { n \in 1 .. Len(fftAnalyzerRef.nodes) : ~fftAnalyzerRef.nodes[n].stopped }

\* The calls of generateTestSignal whose signal is the current one of its
\* channel: the channel was neither stopped nor given a new signal since.
CurrentSignals ==
    { fftAnalyzerRef.gains[c] : c \in DOMAIN fftAnalyzerRef.gains }

\* C25: every oscillator generateTestSignal started, the primary and the
\* detune one, is stopped by stopSignal of its channel, by the next
\* generateTestSignal of its channel and by dispose: an oscillator still
\* running belongs to the current signal of its channel, the one generated
\* last and neither stopped nor disposed of since.
C25_NoOscillatorLeft ==
    \A n \in RunningNodes : fftAnalyzerRef.nodes[n].signal \in CurrentSignals

\* stopSignal (id) after generateTestSignal (id, ...): the primary
\* oscillator is stopped, the maps are empty, the detune oscillator runs.
C25_Witness ==
    /\ Len(fftAnalyzerRef.nodes) = 2
    /\ ~fftAnalyzerRef.closed
    /\ DOMAIN fftAnalyzerRef.oscillators = {}
    /\ DOMAIN fftAnalyzerRef.gains = {}
    /\ fftAnalyzerRef.nodes[1].stopped
    /\ fftAnalyzerRef.nodes[2].role = "detune"
    /\ ~fftAnalyzerRef.nodes[2].stopped

\* The primary oscillators alone are stopped as the claim says.
C25_PrimaryStopped ==
    \A n \in RunningNodes :
        fftAnalyzerRef.nodes[n].role = "oscillator" =>
            fftAnalyzerRef.nodes[n].signal \in CurrentSignals


(***************************************************************************)
(* SpecSearch: findFundamentalBin on its own, over spectra of up to        *)
(* MaxData bins.                                                           *)
(***************************************************************************)
MaxData == 5

\* Bin widths that put the searched range below, inside and across the end
\* of such a spectrum: 20 Hz is bin 4, 1, 0 and 0, 2000 Hz is bin 400, 100,
\* 4 and 2.
BinWidths == {5, 20, 500, 1000}

DataValues == {0, 1, 2}

InitSearch ==
    /\ InitPlugin /\ totalNumInputChannels = 1
    /\ InitCodecIdle /\ InitAnalyzerIdle /\ InitAggregateIdle /\ InitSignalIdle
    /\ InitHookIdle /\ InitSessionIdle
    /\ fbData \in SeqsUpTo(DataValues, MaxData)
    /\ fbBinWidth \in BinWidths
    /\ fbResult = 0
    /\ fbPhase = "input"

\* this.findFundamentalBin (fbData, fbBinWidth)
FindFundamentalBin ==
    /\ fbPhase = "input"
    /\ fbResult' = findFundamentalBin(fbData, fbBinWidth)
    /\ fbPhase' = "done"
    /\ UNCHANGED << pluginVars, codecVars, analyzerVars, aggregateVars,
                    fftAnalyzerRef, hookVars, sessionVars, fbData, fbBinWidth >>

NextSearch == FindFundamentalBin

SpecSearch == InitSearch /\ [][NextSearch]_vars

\* The bins of the searched range that the spectrum has.
SearchedBins ==
    { i \in 0 .. Len(fbData) - 1 :
        /\ MathRound(SearchFrom, fbBinWidth) <= i
        /\ i <= MathRound(SearchTo, fbBinWidth) }

\* C28: when the spectrum has a bin in the range searched, the bin returned
\* is one of the range [minBin, maxBin] for 20 to 2000 Hz, is an index of
\* the spectrum, and no bin of the range has a larger value.
C28_FundamentalBinInRange ==
    fbPhase = "done" /\ SearchedBins # {} =>
        /\ fbResult \in SearchedBins
        /\ \A i \in SearchedBins : At(fbData, fbResult) >= At(fbData, i)

\* The range starts at bin 1 and the spectrum falls from bin 0 on: bin 0,
\* below the range, is returned.
C28_Witness ==
    /\ fbPhase = "done"
    /\ fbBinWidth = 20
    /\ fbData = << 2, 1, 0 >>
    /\ fbResult = 0

\* The range ends at bin 2 and the spectrum rises up to bin 3: bin 3, above
\* the range, is returned.
C28_WitnessAbove ==
    /\ fbPhase = "done"
    /\ fbBinWidth = 1000
    /\ fbData = << 0, 0, 1, 2, 0 >>
    /\ fbResult = 3

\* What does hold: the bin returned is an index of the spectrum, at most one
\* bin outside the range, and no bin of the range has a larger value.
C28_WithinOneBin ==
    fbPhase = "done" /\ SearchedBins # {} =>
        /\ \E i \in SearchedBins : fbResult \in {i - 1, i, i + 1}
        /\ fbResult \in 0 .. Len(fbData) - 1
        /\ \A i \in SearchedBins : At(fbData, fbResult) >= At(fbData, i)


(***************************************************************************)
(* SpecEngine: one component using useAudioEngine: its effects run, the    *)
(* 100 ms timer and the animation frames fire, the component is unmounted. *)
(* Each callback runs to its end before the next one starts; the effects   *)
(* of a commit run together, and so do the cleanups of an unmount, in the  *)
(* order the effects are declared in.                                      *)
(***************************************************************************)
MaxEngineChannels == 2

MaxFrames == 3

EngineIds == << "ch1", "ch2", "ch3", "ch4" >>

EngineLevels == {0, 50, 100}

\* The channel lists of the page: ids by position, and the lists of two
\* channels added within one millisecond, which share the id ch${Date.now()}.
EngineChannelLists ==
    { [i \in 1 .. Len(levels) |-> [id |-> EngineIds[i], level |-> levels[i]]] :
      levels \in SeqsUpTo(EngineLevels, MaxEngineChannels) }
    \cup { << [id |-> EngineIds[1], level |-> first],
              [id |-> EngineIds[1], level |-> second] >> :
            first \in EngineLevels, second \in EngineLevels }

InitEngine ==
    /\ InitPlugin /\ totalNumInputChannels = 1
    /\ InitCodecIdle /\ InitAnalyzerIdle /\ InitAggregateIdle /\ InitSearchIdle
    /\ InitSessionIdle
    /\ fftAnalyzerRef = Null
    /\ hkPhase = "rendered"
    /\ hkChannels \in EngineChannelLists
    /\ hkTimer = "none"
    /\ hkRaf = FALSE
    /\ hkRunning = FALSE
    /\ hkTime = 0
    /\ hkUpdates = [c \in {} |-> 0]
    /\ hkLateCalls = {}
    /\ hkLateUpdate = FALSE

engineFrame ==
    << pluginVars, codecVars, analyzerVars, aggregateVars, searchVars, sessionVars >>

\* channelsRef.current.forEach (ch => fftAnalyzerRef.current?.generateTestSignal
\* (ch.id, freq, amplitude)) on the analyzer a, for the first n channels.
RECURSIVE generateAll(_, _, _)
generateAll(a, list, n) ==
    IF n = 0 THEN a
    ELSE generateTestSignalOn(generateAll(a, list, n - 1), list[n].id)

\* The effects of the first commit: the analyzer is created and the timer
\* set; running is set and the first animation frame requested.
Mount ==
    /\ hkPhase = "rendered"
    /\ hkPhase' = "mounted"
    /\ fftAnalyzerRef' = NewFFTAnalyzer
    /\ hkTimer' = "pending"
    /\ hkRunning' = TRUE
    /\ hkRaf' = TRUE
    /\ UNCHANGED << engineFrame, hkChannels, hkTime, hkUpdates, hkLateCalls,
                    hkLateUpdate >>

\* The component renders again with another channels list, and the effect of
\* lines 126-128 stores the list in channelsRef, where the timer callback and
\* tick read it.
Render(list) ==
    /\ hkPhase = "mounted"
    /\ hkChannels' = list
    /\ UNCHANGED << engineFrame, fftAnalyzerRef, hkPhase, hkTimer, hkRaf,
                    hkRunning, hkTime, hkUpdates, hkLateCalls, hkLateUpdate >>

\* The callback given to setTimeout: nothing cancels it.
TimerFires ==
    /\ hkTimer = "pending"
    /\ hkTimer' = "fired"
    /\ fftAnalyzerRef' = generateAll(fftAnalyzerRef, hkChannels, Len(hkChannels))
    /\ hkLateCalls' = IF fftAnalyzerRef.closed /\ hkChannels # <<>>
                      THEN hkLateCalls \cup {"generateTestSignal"}
                      ELSE hkLateCalls
    /\ UNCHANGED << engineFrame, hkPhase, hkChannels, hkRaf, hkRunning, hkTime,
                    hkUpdates, hkLateUpdate >>

\* tick, called for a requested animation frame.
Tick ==
    /\ hkRaf
    /\ hkTime < MaxFrames
    /\ IF ~hkRunning
       THEN /\ hkRaf' = FALSE
            /\ UNCHANGED << hkTime, hkUpdates, hkLateCalls, hkLateUpdate >>
       ELSE /\ hkTime' = hkTime + 1
            /\ hkUpdates' = [c \in { hkChannels[i].id : i \in 1 .. Len(hkChannels) } |->
                               LET i == CHOOSE j \in 1 .. Len(hkChannels) :
                                            /\ hkChannels[j].id = c
                                            /\ \A k \in j + 1 .. Len(hkChannels) :
                                                  hkChannels[k].id # c
                               IN  hkChannels[i].level]
            /\ hkLateCalls' = IF fftAnalyzerRef.closed /\ hkChannels # <<>>
                              THEN hkLateCalls \cup {"setAmplitude", "analyzeTHD"}
                              ELSE hkLateCalls
            /\ hkLateUpdate' = (hkLateUpdate \/ hkPhase = "unmounted")
            /\ hkRaf' = TRUE
    /\ UNCHANGED << engineFrame, fftAnalyzerRef, hkPhase, hkChannels, hkTimer,
                    hkRunning >>

\* The cleanups of the unmount: dispose() of the analyzer, then running set
\* to false and the requested frame cancelled.
Unmount ==
    /\ hkPhase = "mounted"
    /\ hkPhase' = "unmounted"
    /\ fftAnalyzerRef' = disposeOn(fftAnalyzerRef)
    /\ hkRunning' = FALSE
    /\ hkRaf' = FALSE
    /\ UNCHANGED << engineFrame, hkChannels, hkTimer, hkTime, hkUpdates,
                    hkLateCalls, hkLateUpdate >>

NextEngine ==
    \/ Mount
    \/ \E list \in EngineChannelLists : Render(list)
    \/ TimerFires
    \/ Tick
    \/ Unmount

SpecEngine == InitEngine /\ [][NextEngine]_vars

\* C29: once the cleanup has called dispose(), no callback calls
\* generateTestSignal, setAmplitude or analyzeTHD on the disposed analyzer
\* and onUpdate is not invoked again; no oscillator is created on the closed
\* context, whose maps stay empty.
C29_NothingAfterDispose ==
    /\ hkLateCalls = {}
    /\ ~hkLateUpdate
    /\ hkPhase = "unmounted" => DOMAIN fftAnalyzerRef.oscillators = {}

\* Unmounted before the timer fired, then the timer fired: two oscillators
\* per channel have been created and started on the closed context.
C29_Witness ==
    /\ hkPhase = "unmounted"
    /\ hkTimer = "fired"
    /\ fftAnalyzerRef.closed
    /\ hkLateCalls = {"generateTestSignal"}
    /\ Len(hkChannels) = 2
    /\ Len(fftAnalyzerRef.nodes) = 4
    /\ \A n \in 1 .. 4 : ~fftAnalyzerRef.nodes[n].stopped

\* What does hold: after the cleanups tick does nothing more, so that
\* setAmplitude and analyzeTHD are not called and onUpdate is not invoked.
C29_TickStopped ==
    /\ hkLateCalls \subseteq {"generateTestSignal"}
    /\ ~hkLateUpdate
    /\ hkPhase = "unmounted" => ~hkRaf /\ ~hkRunning


(***************************************************************************)
(* SpecSession: the plugin that keeps mute and solo in its registry and    *)
(* writes them as child elements: the host restores a session, the mode    *)
(* and the channel id are set, and the state is saved and restored into a  *)
(* new instance.                                                           *)
(***************************************************************************)
SessionIds == {0, 3, ChannelCount}

\* The child elements a session of the host can hold.
SessionChildren ==
    { [id |-> id, muted |-> fl[1], soloed |-> fl[2]] :
        id \in {0, 3}, fl \in { << "1", "0" >>, << "0", "1" >>, << "0", "0" >> } }
    \cup { [id |-> ChannelCount, muted |-> "1", soloed |-> "1"] }

MaxChildren == 2

\* The pluginMode attributes a session of the host can hold: an enumerator
\* and two integers that are none.
SessionModes == {1, 2, -1}

HostSessions ==
    { [pluginMode |-> mode, channelId |-> id, children |-> children] :
        mode \in SessionModes, id \in {0, 3},
        children \in SeqsUpTo(SessionChildren, MaxChildren) }

InitSession ==
    /\ InitPlugin /\ totalNumInputChannels = 1
    /\ InitCodecIdle /\ InitAnalyzerIdle
    /\ InitAggregateIdle /\ InitSignalIdle /\ InitSearchIdle /\ InitHookIdle
    /\ rtPlugin = NewSessionPlugin
    /\ rtXml = getStateInformationOf(NewSessionPlugin)
    /\ rtSaved = NewSessionPlugin
    /\ rtRestored = NewSessionPlugin
    /\ rtPhase = "live"

sessionFrame ==
    << pluginVars, codecVars, analyzerVars, aggregateVars, fftAnalyzerRef,
       searchVars, hookVars >>

\* The host hands the instance the data of a session.
HostRestores(xml) ==
    /\ rtPlugin' = setStateInformationOn(rtPlugin, xml)
    /\ UNCHANGED << sessionFrame, rtXml, rtSaved, rtRestored, rtPhase >>

SessionSetChannelId(id) ==
    /\ rtPlugin' = setChannelIdOn(rtPlugin, id)
    /\ UNCHANGED << sessionFrame, rtXml, rtSaved, rtRestored, rtPhase >>

SessionSetPluginMode(mode) ==
    /\ rtPlugin' = [rtPlugin EXCEPT !.pluginMode = mode]
    /\ UNCHANGED << sessionFrame, rtXml, rtSaved, rtRestored, rtPhase >>

\* getStateInformation of the instance: the host keeps the element.  The
\* instance goes on living: it can be restored and its setters called before
\* and after the element is used.
SessionGetStateInformation ==
    /\ rtPhase = "live"
    /\ rtXml' = getStateInformationOf(rtPlugin)
    /\ rtSaved' = rtPlugin
    /\ rtPhase' = "saved"
    /\ UNCHANGED << sessionFrame, rtPlugin, rtRestored >>

\* setStateInformation of the kept element on a new instance, a later call
\* of the host.
SessionSetStateInformation ==
    /\ rtPhase = "saved"
    /\ rtRestored' = setStateInformationOn(NewSessionPlugin, rtXml)
    /\ rtPhase' = "restored"
    /\ UNCHANGED << sessionFrame, rtPlugin, rtXml, rtSaved >>

NextSession ==
    \/ \E xml \in HostSessions : HostRestores(xml)
    \/ \E id \in SessionIds : SessionSetChannelId(id)
    \/ \E mode \in PluginModes : SessionSetPluginMode(mode)
    \/ SessionGetStateInformation
    \/ SessionSetStateInformation

SpecSession == InitSession /\ [][NextSession]_vars

\* C30: the instance restored from the saved state has the pluginMode, the
\* channel id and, slot by slot, the muted and soloed flags of the instance
\* that was saved, also after setChannelId (k) with k other than 0.
C30_RoundTrip ==
    rtPhase = "restored" =>
        /\ rtRestored.pluginMode = rtSaved.pluginMode
        /\ rtRestored.channelId = rtSaved.channelId
        /\ \A i \in Slots :
              /\ rtRestored.channels[i].muted = rtSaved.channels[i].muted
              /\ rtRestored.channels[i].soloed = rtSaved.channels[i].soloed

\* Slot 0 muted and channel id 3: two children with id 3 are written, none
\* with id 0, and slot 0 of the restored instance is not muted.
C30_Witness ==
    /\ rtPhase = "restored"
    /\ rtSaved.channelId = 3
    /\ rtSaved.channels[0].muted
    /\ rtXml.children[1].id = 3 /\ rtXml.children[4].id = 3
    /\ ~rtRestored.channels[0].muted

\* What does hold: the mode, the channel id and the flags of every slot but
\* slot 0 come back, and slot 0's too while the channel id is 0.
C30_RoundTripButSlotZero ==
    rtPhase = "restored" =>
        /\ rtRestored.pluginMode = rtSaved.pluginMode
        /\ rtRestored.channelId = rtSaved.channelId
        /\ \A i \in Slots :
              i # 0 \/ rtSaved.channelId = 0 =>
                  /\ rtRestored.channels[i].muted = rtSaved.channels[i].muted
                  /\ rtRestored.channels[i].soloed = rtSaved.channels[i].soloed

=============================================================================
